---- MODULE Spec2Model ----
(***************************************************************************)
(* A model of the aws-rdsportal-backend service: the S3 URI parser and the *)
(* project aggregation service (app/services/project_service.py), the     *)
(* configuration resolver (app/core/config.py) and the retry wrapper of   *)
(* the identity adapter (app/core/cognito.py).                            *)
(*                                                                         *)
(* Python strings whose characters the code looks at (URIs, keys, ids,    *)
(* passwords) are sequences of one-character strings; strings the code    *)
(* only tests for emptiness, compares or concatenates are TLA+ strings.   *)
(***************************************************************************)
EXTENDS Integers, Sequences, FiniteSets, TLC

VARIABLES
    p_pc,        \* parser harness: "input" | "done"
    p_uri,       \* the string handed to _parse_s3_uri
    p_result,    \* what _parse_s3_uri did with it
    pj_table,    \* the key-value store: stored key -> item
    pj_pc,       \* project service: "idle" | "dynamodb" | "s3" | "done"
    pj_req,      \* the read operation in progress and its arguments
    pj_item,     \* the handler's local `item`
    pj_events,   \* parser calls and object-storage reads of this request
    pj_result,   \* the HTTP outcome of this request
    pj_content,  \* what object storage answered: <<>>, then <<answer>>
    pj_objects,  \* object storage: what a read of each (bucket, key) gives
    cf_env,      \* what Settings() reads: process environment and .env
    cf_store,    \* Parameter Store: reachable or not, and its parameters
    cf_file,     \* the local file .env.<ENVIRONMENT>, None when it is absent
    cf_settings, \* the module global _settings
    cf_created,  \* how many Settings objects have been constructed
    cf_calls,    \* calls of get_settings made so far
    cf_returned, \* whether some call of get_settings has returned
    cf_last,     \* what the last call of get_settings did
    cg_pc,       \* identity adapter: "idle" | "run" | "done"
    cg_op,       \* the CognitoClient operation invoked
    cg_outer,    \* attempt number of the outer retry (link_* operations)
    cg_attempt,  \* attempt number of the retry around the provider call
    cg_answers,  \* the provider's answers to the calls of this invocation
    cg_result,   \* what the invocation returned or raised
    cg_client,   \* the CognitoClient: client_id and client_secret
    cg_username, \* the username argument of the invocation
    cg_request,  \* the parameters of the last call sent to the provider
    lg_in,       \* logging: an event dictionary as the caller built it
    lg_event,    \* the event dictionary after the processors run so far
    lg_n,        \* how many times mask_sensitive_data has run on it
    lg_given,    \* the sensitive value the service was given, <<>> if none
    lg_written,  \* the event dictionaries written to the log
    ls_table,    \* list endpoint: the rows of the projects table
    ls_query,    \* the filters and page_size of the requests
    ls_resps,    \* the responses to the requests for pages 1, 2, ...
    ca_pc,       \* cached clients: where each thread stands in its call
    ca_op,       \* the function each thread called
    ca_kind,     \* the factory each thread is in
    ca_local,    \* the handles each thread has gathered for its AWSClients
    ca_ret,      \* what each thread's call returned
    ca_cache,    \* the lru_cache of each factory and _table_cache: a handle or 0
    ca_made,     \* how many handles of each kind were constructed
    ca_clients,  \* the global _aws_clients
    ca_instances, \* how many AWSClients were constructed
    ca_returned, \* the AWSClients instances get_aws_clients has returned
    pm_pages,    \* parameter loader: the pages Parameter Store answers with
    pm_pc,       \* "idle", "loop" (in the while loop) or "done"
    pm_token,    \* next_token
    pm_parameters, \* the dict `parameters`
    pm_requests, \* how many get_parameters_by_path calls were made
    pm_result,   \* what load_parameters_from_aws_sync returned, once it has
    rp_rows,     \* repository: the committed rows of the model's table, by id
    rp_hist,     \* the repository calls made so far, each with its outcome
    db_pc,       \* get_db: where each request stands
    db_session,  \* the session get_db yielded to each request, 0 for none
    db_outcome,  \* how each request's handler ended
    db_open,     \* the sessions created and not closed
    db_closes,   \* how many times each session was closed
    db_made      \* how many sessions SessionLocal() has made

parse_vars == <<p_pc, p_uri, p_result>>
proj_vars ==
    <<pj_table, pj_pc, pj_req, pj_item, pj_events, pj_result, pj_content,
      pj_objects>>
conf_vars == <<cf_env, cf_store, cf_file, cf_settings, cf_created, cf_calls,
               cf_returned, cf_last>>
cog_vars ==
    <<cg_pc, cg_op, cg_outer, cg_attempt, cg_answers, cg_result,
      cg_client, cg_username, cg_request>>
log_vars == <<lg_in, lg_event, lg_n, lg_given, lg_written>>
list_vars == <<ls_table, ls_query, ls_resps>>
cache_vars ==
    <<ca_pc, ca_op, ca_kind, ca_local, ca_ret, ca_cache, ca_made, ca_clients,
      ca_instances, ca_returned>>
params_vars ==
    <<pm_pages, pm_pc, pm_token, pm_parameters, pm_requests, pm_result>>
repo_vars == <<rp_rows, rp_hist>>
sess_vars == <<db_pc, db_session, db_outcome, db_open, db_closes, db_made>>
infra_vars == <<params_vars, repo_vars, sess_vars>>
vars ==
    <<parse_vars, proj_vars, conf_vars, cog_vars, log_vars, list_vars,
      cache_vars, infra_vars>>

(***************************************************************************)
(* Bounds of the model.                                                    *)
(***************************************************************************)
MaxBucketLen == 4
MaxKeyLen == 4
MaxProjectId == 2
MaxItems == 2
MaxCalls == 2

(***************************************************************************)
(* Strings.                                                                *)
(***************************************************************************)
NL == "\n"

\* All sequences over alphabet A of length 0..n.
SeqsUpTo(A, n) == UNION {[1..k -> A] : k \in 0..n}

\* s[a..] and s[..b] of Python, 1-based here.
Drop(s, n) == SubSeq(s, n + 1, Len(s))
Take(s, n) == SubSeq(s, 1, n)

\* str.startswith
StartsWith(s, p) == Len(s) >= Len(p) /\ Take(s, Len(p)) = p

\* `sub in s` of Python
Contains(s, sub) ==
    \E i \in 0..(Len(s) - Len(sub)) : SubSeq(s, i + 1, i + Len(sub)) = sub

\* Index of the first c in s, 0 when there is none.
FirstIndex(s, c) ==
    IF \E i \in 1..Len(s) : s[i] = c
    THEN CHOOSE i \in 1..Len(s) : s[i] = c /\ \A j \in 1..(i - 1) : s[j] # c
    ELSE 0

\* The string c repeated n times.
Repeat(c, n) == [i \in 1..n |-> c]

(***************************************************************************)
(* _parse_s3_uri (project_service.py:24-55).                               *)
(***************************************************************************)
S3Scheme == <<"s", "3", ":", "/", "/">>

\* The character classes of the bucket pattern: [a-z0-9] and [a-z0-9.-].
LowerAlnum ==
    {"a", "b", "c", "d", "e", "f", "g", "h", "i", "j", "k", "l", "m",
     "n", "o", "p", "q", "r", "s", "t", "u", "v", "w", "x", "y", "z",
     "0", "1", "2", "3", "4", "5", "6", "7", "8", "9"}
BucketMiddle == LowerAlnum \cup {".", "-"}

\* {1,61} of the bucket pattern.
BucketMidMin == 1
BucketMidMax == 61

NoMatch == [matched |-> FALSE, g1 |-> <<>>, g2 |-> <<>>]

\* re.match(r"s3://([^/]+)/(.+)", s3_uri): anchored at the start only.  The
\* class [^/] takes any character but "/", line breaks included, so group 1
\* runs to the first "/"; "." takes any character but a line break, so
\* group 2 is the longest run after that "/" holding no line break.
UriRegexMatch(s) ==
    IF ~StartsWith(s, S3Scheme) THEN NoMatch
    ELSE LET rest  == Drop(s, Len(S3Scheme))
             slash == FirstIndex(rest, "/")
         IN  IF slash <= 1 THEN NoMatch
             ELSE LET after == Drop(rest, slash)
                      nl    == FirstIndex(after, NL)
                      klen  == IF nl = 0 THEN Len(after) ELSE nl - 1
                  IN  IF klen = 0 THEN NoMatch
                      ELSE [matched |-> TRUE,
                            g1 |-> Take(rest, slash - 1),
                            g2 |-> Take(after, klen)]

\* [a-z0-9][a-z0-9.-]{1,61}[a-z0-9] over the whole of b.
BucketFullMatch(b) ==
    /\ Len(b) >= BucketMidMin + 2
    /\ Len(b) <= BucketMidMax + 2
    /\ b[1] \in LowerAlnum
    /\ b[Len(b)] \in LowerAlnum
    /\ \A i \in 2..(Len(b) - 1) : b[i] \in BucketMiddle

\* re.match(r"^[a-z0-9][a-z0-9.-]{1,61}[a-z0-9]$", bucket): without
\* re.MULTILINE "$" matches at the end of the string and also just before a
\* line break that ends the string.
BucketRegexMatch(b) ==
    \/ BucketFullMatch(b)
    \/ /\ Len(b) >= 1
       /\ b[Len(b)] = NL
       /\ BucketFullMatch(Take(b, Len(b) - 1))

\* ".." in key or key.startswith("/")
KeyIsTraversal(key) == Contains(key, <<".", ".">>) \/ StartsWith(key, <<"/">>)

Rejected(why) == [ok |-> FALSE, error |-> why, bucket |-> <<>>, key |-> <<>>]

\* The result of _parse_s3_uri: the pair it returns, or the ValueError.
ParseS3Uri(s3_uri) ==
    LET m == UriRegexMatch(s3_uri)
    IN  IF ~m.matched THEN Rejected("Invalid S3 URI")
        ELSE IF ~BucketRegexMatch(m.g1) THEN Rejected("Invalid S3 bucket name")
        ELSE IF KeyIsTraversal(m.g2) THEN Rejected("Invalid S3 key")
        ELSE [ok |-> TRUE, error |-> "", bucket |-> m.g1, key |-> m.g2]

(***************************************************************************)
(* Optional values: <<>> is Python's None, <<x>> is the value x.           *)
(***************************************************************************)
None == <<>>
Some(x) == <<x>>

\* dict.get(name): the attribute, or None when the item has none.
ItemGet(item, name) == IF name \in DOMAIN item THEN Some(item[name]) ELSE None

\* dict.get(name, default)
ItemGetOr(item, name, default) ==
    IF name \in DOMAIN item THEN item[name] ELSE default

\* `not x` is false: x is neither None nor empty (the empty string, the
\* empty dict and the empty sequence are all <<>> here).
Truthy(opt) == opt # None /\ opt[1] # <<>>

(***************************************************************************)
(* str(int) for the non-negative integers the model uses.                  *)
(***************************************************************************)
DigitChars == <<"0", "1", "2", "3", "4", "5", "6", "7", "8", "9">>

RECURSIVE IntToStr(_)
IntToStr(n) ==
    IF n < 10 THEN <<DigitChars[n + 1]>>
    ELSE IntToStr(n \div 10) \o <<DigitChars[(n % 10) + 1]>>

(***************************************************************************)
(* ProjectService (project_service.py:57-229).                             *)
(***************************************************************************)
\* pk = f"USER#{user_id}" and sk = f"PROJ#{project_id}" (lines 135-136).
MakePKTruncated(user_id) == <<"U", "S", "E", "R", "#">> \o Take(user_id, 8)
MakePK(user_id) == <<"U", "S", "E", "R", "#">> \o user_id
MakeSK(project_id) == <<"P", "R", "O", "J", "#">> \o IntToStr(project_id)

\* The key under which the external pipeline stores the item of a user's
\* project: (USER#<id>, PROJ#<id>).
StoredKey(user_id, project_id) ==
    << <<"U", "S", "E", "R", "#">> \o user_id,
       <<"P", "R", "O", "J", "#">> \o IntToStr(project_id) >>

\* aws.dynamodb_get_item(table, pk, sk): the item stored under exactly the
\* key (pk, sk), or None.
DynamoGetItem(table, pk, sk) ==
    IF <<pk, sk>> \in DOMAIN table THEN Some(table[<<pk, sk>>]) ELSE None

\* aws.s3_get_json(bucket, key) and aws.s3_get_text(bucket, key): what the
\* object under (bucket, key) reads as, None when there is none.
S3Get(objects, as, bucket, key) ==
    IF <<bucket, key>> \in DOMAIN objects
    THEN objects[<<bucket, key>>][as]
    ELSE None

ReadOps ==
    {"get_project_metadata", "get_ppm", "get_ppm_field", "get_script",
     "get_assets", "get_creative_brief", "get_assets_script"}
ItemOps == {"get_project_metadata", "get_assets"}
JsonOps == {"get_ppm", "get_ppm_field", "get_script"}
TextOps == {"get_creative_brief", "get_assets_script"}

\* The reference attribute each operation reads (lines 97, 101, 112, 221-229).
RefField(op) ==
    CASE op \in {"get_ppm", "get_ppm_field"} -> "PPMRef"
      [] op = "get_script" -> "ScriptRef"
      [] op = "get_creative_brief" -> "CreativeBriefUrl"
      [] op = "get_assets_script" -> "AssetsScriptUrl"

IdField(op) ==
    CASE op = "get_creative_brief" -> "CreativeBriefId"
      [] op = "get_assets_script" -> "AssetsScriptId"

ContentName(op) ==
    CASE op \in {"get_ppm", "get_ppm_field"} -> "PPM"
      [] op = "get_script" -> "Script"
      [] op = "get_creative_brief" -> "Creative Brief"
      [] op = "get_assets_script" -> "Assets Script"

Http(status, detail, body) ==
    [status |-> status, detail |-> detail, body |-> body]

\* get_project_metadata (lines 57-93): the fields the model's items carry;
\* the others are plain item.get(...) of attributes they lack.
ProjectMetadata(item, project_id, user_id) ==
    [project_id |-> ItemGetOr(item, "ProjectId", project_id),
     user_id |-> ItemGetOr(item, "UserId", user_id),
     title |-> ItemGetOr(item, "Title", <<"Untitled Project">>),
     ppm_ref |-> ItemGet(item, "PPMRef"),
     script_ref |-> ItemGet(item, "ScriptRef"),
     creative_brief_url |-> ItemGet(item, "CreativeBriefUrl"),
     assets_script_url |-> ItemGet(item, "AssetsScriptUrl")]

\* get_assets (lines 114-131), for items whose Assets hold no entry.
ProjectAssets(item) == [assets |-> ItemGetOr(item, "Assets", <<>>)]

\* _get_s3_content and _get_s3_text_content from the reference to the read
\* (lines 161-178, 193-210): the parser calls and reads made, in order, and
\* where the handler stands after them.
S3ContentStepsUnchecked(s3_ref, content_name) ==
    IF ~Truthy(s3_ref)
    THEN [next |-> "done", events |-> <<>>,
          result |-> Http(404, <<content_name, " not found">>, None)]
    ELSE LET m == UriRegexMatch(s3_ref[1])
         IN  [next |-> "s3",
              events |-> <<[ev |-> "s3_read", bucket |-> m.g1, key |-> m.g2]>>,
              result |-> Http(0, <<>>, None)]
S3ContentSteps(s3_ref, content_name) ==
    IF ~Truthy(s3_ref)
    THEN [next |-> "done", events |-> <<>>,
          result |-> Http(404, <<content_name, " not found">>, None)]
    ELSE LET r == ParseS3Uri(s3_ref[1])
             parsed == [ev |-> "parse", uri |-> s3_ref[1], ok |-> r.ok,
                        bucket |-> r.bucket, key |-> r.key]
         IN  IF ~r.ok
             THEN [next |-> "done", events |-> <<parsed>>,
                   result |-> Http(500, <<"Invalid ", content_name, " reference">>, None)]
             ELSE [next |-> "s3",
                   events |-> <<parsed,
                                [ev |-> "s3_read", bucket |-> r.bucket, key |-> r.key]>>,
                   result |-> Http(0, <<>>, None)]

\* The handler after the object-storage read answered `content` (lines
\* 180-185, 212-217, 103-108).
AfterS3ReadUnchecked(op, item, field, content) == Http(200, <<>>, content)
AfterS3Read(op, item, field, content) ==
    IF ~Truthy(content)
    THEN Http(404, <<ContentName(op), " file not found in S3">>, None)
    ELSE IF op \in TextOps
    THEN Http(200, <<>>, [content |-> content[1],
                          content_id |-> ItemGet(item, IdField(op))])
    ELSE IF op = "get_ppm_field"
    THEN IF field \notin DOMAIN content[1]
         THEN Http(404, <<"PPM field '", field, "' not found">>, None)
         ELSE Http(200, <<>>, [f \in {field} |-> content[1][f]])
    ELSE Http(200, <<>>, content[1])

(***************************************************************************)
(* get_settings (config.py:65-185).                                        *)
(***************************************************************************)
\* "".join(parts)
RECURSIVE Join(_)
Join(parts) == IF parts = <<>> THEN "" ELSE Head(parts) \o Join(Tail(parts))

\* urllib.parse.quote(s, safe=""): letters, digits and "_.-~" stay, every
\* other character becomes %XX; the table holds the characters in use.
QuoteUnreserved == LowerAlnum \cup {"_", ".", "-", "~"}
QuoteChar(c) ==
    IF c \in QuoteUnreserved THEN c
    ELSE CASE c = "@" -> "%40"
           [] c = ":" -> "%3A"
           [] c = "/" -> "%2F"
           [] c = "%" -> "%25"
Quote(s) == Join([i \in 1..Len(s) |-> QuoteChar(s[i])])

\* The connection string built at lines 115-120 and 175-180.
BuildDatabaseUrl(s) ==
    Join(<<"postgresql://", s.DB_USERNAME, ":", Quote(s.DB_PASSWORD),
           "@", s.DB_HOST, ":", s.DB_PORT, "/", s.DB_NAME, "?sslmode=require">>)

ProdLike == {"production", "staging"}

\* load_parameters_from_aws_sync(path, region) (aws_params.py:13-74): the
\* parameters under the path, or {} when the fetch fails.
LoadParametersFromAwsSync(store) == IF store.up THEN store.params ELSE <<>>

\* Lines 80-85: production and staging must use Parameter Store.
EnvironmentConstraintBrokenProdOnly(s) ==
    s.ENVIRONMENT = "production" /\ ~s.USE_AWS_PARAMETER_STORE
EnvironmentConstraintBroken(s) ==
    s.ENVIRONMENT \in ProdLike /\ ~s.USE_AWS_PARAMETER_STORE

\* Lines 105-109: database_url of Parameter Store, when it holds one.
ApplyParameterStore(s, params) ==
    IF "database_url" \in DOMAIN params /\ params["database_url"] # ""
    THEN [s EXCEPT !.DATABASE_URL = params["database_url"]]
    ELSE s

\* Lines 112-122: DB_HOST and DB_PASSWORD build the connection string.
ApplySecretsManager(s) ==
    IF s.DB_HOST # "" /\ s.DB_PASSWORD # <<>>
    THEN [s EXCEPT !.DATABASE_URL = BuildDatabaseUrl(s)]
    ELSE s

\* Lines 88-122 in the order of the code: Parameter Store (when enabled),
\* then the DB_HOST / DB_PASSWORD fields, which overwrite it.
ResolveDatabaseUrlParameterStoreWins(s, params) ==
    IF s.USE_AWS_PARAMETER_STORE
    THEN ApplyParameterStore(ApplySecretsManager(s), params)
    ELSE ApplySecretsManager(s)
ResolveDatabaseUrl(s, params) ==
    IF s.USE_AWS_PARAMETER_STORE
    THEN ApplySecretsManager(ApplyParameterStore(s, params))
    ELSE ApplySecretsManager(s)

\* Lines 135-140: no local file in production and staging.
FallbackAllowedEverywhere(s) == TRUE
FallbackAllowed(s) == s.ENVIRONMENT \notin ProdLike

\* os.getenv(name, default) after load_dotenv(env_file, override=True): the
\* field is empty in the settings, so the process environment has no value
\* for it and the file's value, if any, is what getenv finds.
GetenvAfterLoad(file, name, default) ==
    IF file[name] # (IF name = "DB_PASSWORD" THEN <<>> ELSE "")
    THEN file[name] ELSE default

Or(a, b, empty) == IF a # empty THEN a ELSE b

\* Lines 157-161: fill the empty DB_* fields from the loaded file.
FillFromFile(s, file) ==
    [s EXCEPT
       !.DB_HOST = Or(s.DB_HOST, GetenvAfterLoad(file, "DB_HOST", ""), ""),
       !.DB_PORT = Or(s.DB_PORT, GetenvAfterLoad(file, "DB_PORT", "5432"), ""),
       !.DB_USERNAME = Or(s.DB_USERNAME, GetenvAfterLoad(file, "DB_USERNAME", ""), ""),
       !.DB_PASSWORD = Or(s.DB_PASSWORD, GetenvAfterLoad(file, "DB_PASSWORD", <<>>), <<>>),
       !.DB_NAME = Or(s.DB_NAME, GetenvAfterLoad(file, "DB_NAME", "postgres"), "")]

\* Line 170: the fields the fallback needs.
FallbackFieldsCompleteUnchecked(s) == TRUE
FallbackFieldsComplete(s) ==
    s.DB_HOST # "" /\ s.DB_USERNAME # "" /\ s.DB_PASSWORD # <<>>

Outcome(kind, error, s, params, fetches, file_read) ==
    [kind |-> kind, error |-> error, settings |-> s, params |-> params,
     fetches |-> fetches, file_read |-> file_read]

\* Lines 131-185, with the settings as the blocks above left them.
FinalCheck(s, params, fetches, file) ==
    IF s.DATABASE_URL # ""
    THEN Outcome("returned", "", s, params, fetches, FALSE)
    ELSE IF ~FallbackAllowed(s)
    THEN Outcome("raised", "DATABASE_URL not configured", s, params, fetches, FALSE)
    ELSE IF file = None
    THEN Outcome("raised", "local file missing", s, params, fetches, FALSE)
    ELSE LET filled == FillFromFile(s, file[1])
         IN  IF ~FallbackFieldsComplete(filled)
             THEN Outcome("raised", "local file incomplete", filled, params, fetches, TRUE)
             ELSE Outcome("returned", "",
                          [filled EXCEPT !.DATABASE_URL = BuildDatabaseUrl(filled)],
                          params, fetches, TRUE)

\* Line 98: `if not params`.
ParametersMissingNever(params) == FALSE
ParametersMissing(params) == params = <<>>

\* get_settings from line 79 on, for the settings object s: what the call
\* does and the fields it leaves in the object.
ResolveSettings(s, store, file) ==
    IF EnvironmentConstraintBroken(s)
    THEN Outcome("raised", "Parameter Store required", s, <<>>, 0, FALSE)
    ELSE IF s.USE_AWS_PARAMETER_STORE
    THEN LET params == LoadParametersFromAwsSync(store)
         IN  IF ParametersMissing(params)
             THEN Outcome("raised", "Parameter Store gave nothing", s, params, 1, FALSE)
             ELSE FinalCheck(ResolveDatabaseUrl(s, params), params, 1, file)
    ELSE FinalCheck(ResolveDatabaseUrl(s, <<>>), <<>>, 0, file)

(***************************************************************************)
(* CognitoClient and cognito_retry (cognito.py:28-40, 114-599).            *)
(***************************************************************************)
\* RETRYABLE_EXCEPTIONS (lines 29-32).
RetryableExceptions == {"EndpointConnectionError", "ConnectTimeoutError"}

\* stop_after_attempt(3) (line 36).
StopAfterAttempt == 3

\* Error codes a ClientError of the provider may carry: the ones the code
\* tells apart and one it does not.
ClientErrorCodes ==
    {"NotAuthorizedException", "UserNotFoundException",
     "UserNotConfirmedException", "UsernameExistsException",
     "InvalidParameterException", "InvalidPasswordException",
     "AliasExistsException", "CodeMismatchException",
     "ExpiredCodeException", "InternalErrorException"}

\* Exceptions of the SDK call that are neither ClientError nor retryable.
OtherExceptions == {"ReadTimeoutError"}

\* A response without tokens, which only sign_in looks at (line 178).
ProviderAnswers ==
    {"ok", "ok_no_tokens"} \cup ClientErrorCodes \cup RetryableExceptions
        \cup OtherExceptions

\* The operations that call the provider themselves, and the two that call
\* admin_update_user_attributes (lines 443-459).
DirectOps ==
    {"sign_up", "sign_in", "refresh_tokens", "get_user", "global_sign_out",
     "confirm_sign_up", "resend_confirmation_code", "sign_up_with_phone",
     "admin_confirm_sign_up", "admin_set_user_password", "admin_initiate_auth",
     "admin_update_user_attributes", "list_users_by_phone",
     "list_users_by_email", "get_user_by_sub",
     "get_user_attribute_verification_code", "verify_user_attribute",
     "forgot_password", "confirm_forgot_password"}
LinkOps == {"link_phone_to_user", "link_email_to_user"}
CognitoOps == DirectOps \cup LinkOps

\* The operation whose body makes the provider call.
BodyOp(op) == IF op \in LinkOps THEN "admin_update_user_attributes" ELSE op

Raised(cls, msg) == [kind |-> "raised", cls |-> cls, msg |-> msg, value |-> None]
Returned(what) == [kind |-> "returned", cls |-> "", msg |-> what, value |-> None]
ReturnedDict(what, dict) ==
    [kind |-> "returned", cls |-> "", msg |-> what, value |-> Some(dict)]

\* secrets.token_urlsafe(32) + "Aa1!" (line 291): the token is kept as a
\* term.
TempPassword == <<"token_urlsafe(32)", "Aa1!">>

\* The dicts sign_up_with_phone returns (lines 311-316, 321-326); UserSub
\* and UserConfirmed are the response's.
PhoneSignUpCreated ==
    [UserSub |-> Some("response.UserSub"), UserConfirmed |-> "response.UserConfirmed",
     existing |-> FALSE, temp_password |-> Some(TempPassword)]
PhoneSignUpExisting ==
    [UserSub |-> None, UserConfirmed |-> "True",
     existing |-> TRUE, temp_password |-> None]

\* A ClientError that no `except` block catches.
MapClientErrorRaw(op, code) == Raised("ClientError", code)

\* The `except ClientError` block of each operation: what becomes of code.
MapClientError(op, code) ==
    CASE op = "sign_up" ->
           Raised("CognitoException",
                  CASE code = "UsernameExistsException" -> "Username already exists"
                    [] code = "InvalidParameterException" -> "Invalid parameter"
                    [] code = "InvalidPasswordException" -> "Password does not meet requirements"
                    [] OTHER -> "Sign up failed")
      [] op = "sign_in" ->
           CASE code = "NotAuthorizedException" ->
                  Raised("InvalidCredentialsException", "Incorrect username or password")
             [] code = "UserNotFoundException" ->
                  Raised("UserNotFoundException", "User not found")
             [] code = "UserNotConfirmedException" ->
                  Raised("UserNotConfirmedException", "User not confirmed. Please verify your email.")
             [] OTHER -> Raised("CognitoException", "Sign in failed")
      [] op = "refresh_tokens" ->
           Raised("CognitoException",
                  IF code = "NotAuthorizedException"
                  THEN "Invalid or expired refresh token" ELSE "Token refresh failed")
      [] op = "get_user" ->
           Raised("CognitoException",
                  IF code = "NotAuthorizedException"
                  THEN "Invalid or expired access token" ELSE "Get user failed")
      [] op = "global_sign_out" ->
           Raised("CognitoException",
                  IF code = "NotAuthorizedException"
                  THEN "Invalid or expired access token" ELSE "Sign out failed")
      [] op = "confirm_sign_up" -> Raised("CognitoException", "Confirmation failed")
      [] op = "resend_confirmation_code" -> Raised("CognitoException", "Resend code failed")
      [] op = "sign_up_with_phone" ->
           IF code = "UsernameExistsException"
           THEN ReturnedDict("existing", PhoneSignUpExisting)
           ELSE Raised("CognitoException", "Phone sign up failed")
      [] op = "admin_confirm_sign_up" -> Raised("CognitoException", "Admin confirm failed")
      [] op = "admin_set_user_password" -> Raised("CognitoException", "Set password failed")
      [] op = "admin_initiate_auth" ->
           CASE code = "NotAuthorizedException" ->
                  Raised("InvalidCredentialsException", "Authentication failed")
             [] code = "UserNotFoundException" ->
                  Raised("UserNotFoundException", "User not found")
             [] code = "UserNotConfirmedException" ->
                  Raised("UserNotConfirmedException", "User not confirmed")
             [] OTHER -> Raised("CognitoException", "Admin auth failed")
      [] op = "admin_update_user_attributes" ->
           CASE code = "UserNotFoundException" ->
                  Raised("UserNotFoundException", "User not found")
             [] code = "AliasExistsException" ->
                  Raised("CognitoException", "Phone number already bound to another account")
             [] OTHER -> Raised("CognitoException", "Update user attributes failed")
      [] op \in {"list_users_by_phone", "list_users_by_email", "get_user_by_sub"} ->
           Raised("CognitoException", "List users failed")
      [] op = "get_user_attribute_verification_code" ->
           Raised("CognitoException", "Get verification code failed")
      [] op = "verify_user_attribute" ->
           Raised("CognitoException",
                  CASE code = "CodeMismatchException" -> "Invalid verification code"
                    [] code = "ExpiredCodeException" -> "Verification code expired"
                    [] OTHER -> "Verify attribute failed")
      [] op = "forgot_password" ->
           IF code = "UserNotFoundException"
           THEN Raised("UserNotFoundException", "User not found")
           ELSE Raised("CognitoException", "Forgot password failed")
      [] op = "confirm_forgot_password" ->
           Raised("CognitoException",
                  CASE code = "CodeMismatchException" -> "Invalid verification code"
                    [] code = "ExpiredCodeException" -> "Verification code expired"
                    [] OTHER -> "Reset password failed")

\* One run of an operation's body, the provider answering `answer`: the
\* response is returned, a ClientError is mapped, anything else propagates.
Body(op, answer) ==
    IF answer \in ClientErrorCodes THEN MapClientError(op, answer)
    ELSE IF answer \in {"ok", "ok_no_tokens"} /\ op = "sign_up_with_phone"
    THEN ReturnedDict("response", PhoneSignUpCreated)
    ELSE IF answer = "ok" THEN Returned("response")
    ELSE IF answer = "ok_no_tokens"
    THEN IF op = "sign_in"
         THEN Raised("CognitoException", "Authentication failed: No tokens returned")
         ELSE Returned("response")
    ELSE Raised(answer, "")

\* hmac.new(key, message, sha256).digest(), base64-encoded: the digest is
\* kept as the term it is computed from.
HmacSha256Base64(key, message) ==
    [alg |-> "HMAC-SHA256/base64", key |-> key, message |-> message]

\* _get_secret_hash (lines 102-112); strings are sequences of characters.
GetSecretHashOfUsernameOnly(client, username) ==
    IF ~Truthy(client.client_secret)
    THEN None
    ELSE Some(HmacSha256Base64(client.client_secret[1], username))
GetSecretHash(client, username) ==
    IF ~Truthy(client.client_secret)
    THEN None
    ELSE Some(HmacSha256Base64(client.client_secret[1],
                               username \o client.client_id))

\* The operations whose parameters get a secret hash
\* (`if self.client_secret:` at lines 132, 167, 205, 257, 275, 306, 374,
\* 560, 587).
SecretHashOps ==
    {"sign_up", "sign_in", "refresh_tokens", "confirm_sign_up",
     "resend_confirmation_code", "sign_up_with_phone", "admin_initiate_auth",
     "forgot_password", "confirm_forgot_password"}

\* The method of self.client each operation calls.
ClientMethod(op) ==
    CASE op \in {"sign_in", "refresh_tokens"} -> "initiate_auth"
      [] op = "sign_up_with_phone" -> "sign_up"
      [] op \in {"list_users_by_phone", "list_users_by_email", "get_user_by_sub"}
           -> "list_users"
      [] OTHER -> op

\* The parameters an operation passes to the provider, as far as the secret
\* hash goes: ClientId and the hash (SecretHash, or SECRET_HASH inside
\* AuthParameters) for the operations above, neither for the others.
BuildParams(op, client, username) ==
    [method |-> ClientMethod(op),
     ClientId |-> IF op \in SecretHashOps
                  THEN Some(client.client_id) ELSE None,
     SecretHash |-> IF op \in SecretHashOps /\ Truthy(client.client_secret)
                    THEN GetSecretHash(client, username)
                    ELSE None]

\* retry_if_exception_type(RETRYABLE_EXCEPTIONS) (line 38).
ShouldRetryAnyException(outcome) == outcome.kind = "raised"
ShouldRetry(outcome) ==
    outcome.kind = "raised" /\ outcome.cls \in RetryableExceptions

(***************************************************************************)
(* Logging (logging.py).  Keys and string values are sequences of          *)
(* characters; a value carries its Python type.                            *)
(***************************************************************************)
\* SENSITIVE_FIELDS (lines 28-60).
SENSITIVE_FIELDS ==
    {<<"p", "a", "s", "s", "w", "o", "r", "d">>,
     <<"n", "e", "w", "_", "p", "a", "s", "s", "w", "o", "r", "d">>,
     <<"o", "l", "d", "_", "p", "a", "s", "s", "w", "o", "r", "d">>,
     <<"t", "o", "k", "e", "n">>,
     <<"a", "c", "c", "e", "s", "s", "_", "t", "o", "k", "e", "n">>,
     <<"r", "e", "f", "r", "e", "s", "h", "_", "t", "o", "k", "e", "n">>,
     <<"i", "d", "_", "t", "o", "k", "e", "n">>,
     <<"s", "e", "c", "r", "e", "t">>,
     <<"s", "e", "c", "r", "e", "t", "_", "h", "a", "s", "h">>,
     <<"a", "u", "t", "h", "o", "r", "i", "z", "a", "t", "i", "o", "n">>,
     <<"a", "p", "i", "_", "k", "e", "y">>,
     <<"c", "l", "i", "e", "n", "t", "_", "s", "e", "c", "r", "e", "t">>,
     <<"v", "e", "r", "i", "f", "i", "c", "a", "t", "i", "o", "n", "_", "c", "o", "d", "e">>,
     <<"c", "o", "d", "e">>,
     <<"c", "o", "n", "f", "i", "r", "m", "a", "t", "i", "o", "n", "_", "c", "o", "d", "e">>,
     <<"c", "o", "g", "n", "i", "t", "o", "_", "a", "p", "p", "_", "c", "l", "i", "e", "n", "t", "_", "s", "e", "c", "r", "e", "t">>,
     <<"a", "w", "s", "_", "s", "e", "c", "r", "e", "t", "_", "a", "c", "c", "e", "s", "s", "_", "k", "e", "y">>,
     <<"a", "w", "s", "_", "s", "e", "s", "s", "i", "o", "n", "_", "t", "o", "k", "e", "n">>,
     <<"d", "a", "t", "a", "b", "a", "s", "e", "_", "u", "r", "l">>,
     <<"d", "b", "_", "p", "a", "s", "s", "w", "o", "r", "d">>,
     <<"c", "o", "n", "n", "e", "c", "t", "i", "o", "n", "_", "s", "t", "r", "i", "n", "g">>,
     <<"s", "m", "s", "_", "a", "p", "p", "_", "k", "e", "y">>,
     <<"s", "m", "s", "_", "s", "d", "k", "_", "a", "p", "p", "_", "i", "d">>,
     <<"c", "r", "e", "d", "i", "t", "_", "c", "a", "r", "d">>,
     <<"s", "s", "n">>,
     <<"p", "h", "o", "n", "e", "_", "n", "u", "m", "b", "e", "r">>}

\* str.lower(), for ASCII.
LowerChar(c) ==
    CASE c = "A" -> "a"
      [] c = "B" -> "b"
      [] c = "C" -> "c"
      [] c = "D" -> "d"
      [] c = "E" -> "e"
      [] c = "F" -> "f"
      [] c = "G" -> "g"
      [] c = "H" -> "h"
      [] c = "I" -> "i"
      [] c = "J" -> "j"
      [] c = "K" -> "k"
      [] c = "L" -> "l"
      [] c = "M" -> "m"
      [] c = "N" -> "n"
      [] c = "O" -> "o"
      [] c = "P" -> "p"
      [] c = "Q" -> "q"
      [] c = "R" -> "r"
      [] c = "S" -> "s"
      [] c = "T" -> "t"
      [] c = "U" -> "u"
      [] c = "V" -> "v"
      [] c = "W" -> "w"
      [] c = "X" -> "x"
      [] c = "Y" -> "y"
      [] c = "Z" -> "z"
      [] OTHER -> c
Lower(str) == [i \in 1..Len(str) |-> LowerChar(str[i])]

Str(chars) == [type |-> "str", v |-> chars]
NonStr(type, repr) == [type |-> type, v |-> repr]
Stars == <<"*", "*", "*", "*">>

\* value[:4] and value[-4:]
First4(chars) == SubSeq(chars, 1, IF Len(chars) < 4 THEN Len(chars) ELSE 4)
Last4(chars) ==
    SubSeq(chars, IF Len(chars) < 4 THEN 1 ELSE Len(chars) - 3, Len(chars))

\* The replacement of one sensitive value (lines 72-77).
MaskValueOfAnyLength(value) ==
    Str(First4(value.v) \o Stars \o Last4(value.v))
MaskValueFromEight(value) ==
    IF value.type = "str" /\ Len(value.v) >= 8
    THEN Str(First4(value.v) \o Stars \o Last4(value.v))
    ELSE Str(Stars)
MaskValue(value) ==
    IF value.type = "str" /\ Len(value.v) > 8
    THEN Str(First4(value.v) \o Stars \o Last4(value.v))
    ELSE Str(Stars)

\* mask_sensitive_data (lines 63-77).
MaskSensitiveData(event_dict) ==
    [key \in DOMAIN event_dict |->
        IF Lower(key) \in SENSITIVE_FIELDS
        THEN MaskValue(event_dict[key])
        ELSE event_dict[key]]

\* str.replace(old, new) for a single character old and a string new.
RECURSIVE ReplaceCharBy(_, _, _)
ReplaceCharBy(s, old, new) ==
    IF s = <<>> THEN <<>>
    ELSE (IF Head(s) = old THEN new ELSE <<Head(s)>>)
             \o ReplaceCharBy(Tail(s), old, new)

\* _escape_filter_value (cognito.py:98-100):
\* value.replace("\\", "\\\\").replace('"', '\\"').
EscapeFilterValueQuotesFirst(value) ==
    ReplaceCharBy(ReplaceCharBy(value, "\"", <<"\\", "\"">>),
                  "\\", <<"\\", "\\">>)
EscapeFilterValue(value) ==
    ReplaceCharBy(ReplaceCharBy(value, "\\", <<"\\", "\\">>),
                  "\"", <<"\\", "\"">>)

\* The event list_users_by_phone logs before its query (cognito.py:417-418).
KeyEvent == <<"e", "v", "e", "n", "t">>
KeyPhoneNumber == <<"p", "h", "o", "n", "e", "_", "n", "u", "m", "b", "e", "r">>
KeyFilter == <<"f", "i", "l", "t", "e", "r">>
ListUsersByPhoneQueryEvent(phone_number) ==
    [key \in {KeyEvent, KeyPhoneNumber, KeyFilter} |->
        CASE key = KeyEvent ->
               Str(<<"l", "i", "s", "t", "_", "u", "s", "e", "r", "s", "_", "b", "y", "_", "p", "h", "o", "n", "e", "_", "q", "u", "e", "r", "y">>)
          [] key = KeyPhoneNumber -> Str(phone_number)
          [] OTHER ->
               Str(<<"p", "h", "o", "n", "e", "_", "n", "u", "m", "b", "e", "r", " ", "=", " ", "\"">>
                   \o EscapeFilterValue(phone_number) \o <<"\"">>)]

\* print("[CONFIG] ... DATABASE_URL =", _settings.DATABASE_URL)
\* (config.py:184): standard output, past every processor.
KeyStdout == <<"s", "t", "d", "o", "u", "t">>
PrintFinalDatabaseUrl(database_url) ==
    [key \in {KeyStdout} |->
        Str(<<"[", "C", "O", "N", "F", "I", "G", "]", " ", "D", "A", "T", "A", "B", "A", "S", "E", "_", "U", "R", "L", " ", "=", " ">> \o database_url)]

(***************************************************************************)
(* list_projects (api/v1/projects.py:24-86).                               *)
(***************************************************************************)
\* `if project_id:` for Optional[int]: neither None nor 0.
TruthyInt(opt) == opt # None /\ opt[1] # 0

\* `if start_time`: a datetime is true whenever it is not None.
TruthyDatetime(opt) == opt # None

\* The filters added to the query (lines 41-57).
Matches(row, q) ==
    /\ TruthyInt(q.project_id) => row.project_id = q.project_id[1]
    /\ Truthy(q.user_id) => row.user_id = q.user_id[1]
    /\ IF TruthyDatetime(q.start_time) /\ TruthyDatetime(q.end_time)
       THEN /\ row.created_at >= q.start_time[1]
            /\ row.created_at <= q.end_time[1]
       ELSE IF TruthyDatetime(q.start_time)
       THEN row.created_at >= q.start_time[1]
       ELSE IF TruthyDatetime(q.end_time)
       THEN row.created_at <= q.end_time[1]
       ELSE TRUE

Filtered(table, q) == {row \in table : Matches(row, q)}

\* order_by(Project.created_at.desc()): any order of the rows with
\* created_at non-increasing; rows of equal created_at come in an order the
\* database chooses.
OrderedByCreatedAtDesc(rows) ==
    {ord \in [1..Cardinality(rows) -> rows] :
        /\ \A i, j \in 1..Cardinality(rows) : i # j => ord[i] # ord[j]
        /\ \A i, j \in 1..Cardinality(rows) :
               i < j => ord[i].created_at >= ord[j].created_at}

\* .offset(n) and .limit(n)
Offset(ord, n) == SubSeq(ord, n + 1, Len(ord))
LimitPlusOne(ord, n) == SubSeq(ord, 1, IF Len(ord) < n + 1 THEN Len(ord) ELSE n + 1)
Limit(ord, n) == SubSeq(ord, 1, IF Len(ord) < n THEN Len(ord) ELSE n)

\* ceil(total / page_size) for page_size # 0 (line 77); the quotient of
\* row counts is exact in floating point.
CeilOfQuotientFloor(total, page_size) == total \div page_size
CeilOfQuotient(total, page_size) ==
    IF total % page_size = 0
    THEN total \div page_size
    ELSE total \div page_size + 1

\* The response built from the rows the database returned in order ord.
ListResponse(table, q, page, ord) ==
    LET offset == (page - 1) * q.page_size
        total == Cardinality(Filtered(table, q))
    IN  [items |-> Limit(Offset(ord, offset), q.page_size),
         page |-> page,
         page_size |-> q.page_size,
         total |-> total,
         total_pages |-> IF q.page_size # 0
                         THEN CeilOfQuotient(total, q.page_size)
                         ELSE 0]

(***************************************************************************)
(* The parser on bounded inputs: every string scheme + bucket + sep + key. *)
(***************************************************************************)
BucketAlphabet == {"a", ".", "A", NL}
KeyAlphabet == {"k", ".", "/", NL}
UriSchemes == {S3Scheme, <<"s", "3", ":", "/">>}
\* Buckets around the length limit of the pattern.
LongBuckets == {Repeat("a", n) : n \in (BucketMidMax + 1)..(BucketMidMax + 3)}
BucketInputs == SeqsUpTo(BucketAlphabet, MaxBucketLen) \cup LongBuckets
KeyInputs == SeqsUpTo(KeyAlphabet, MaxKeyLen)

NoResult == [ok |-> FALSE, error |-> "not run", bucket |-> <<>>, key |-> <<>>]

ParseIdle ==
    /\ p_pc = "done"
    /\ p_uri = <<>>
    /\ p_result = NoResult

Parse ==
    /\ p_pc = "input"
    /\ p_result' = ParseS3Uri(p_uri)
    /\ p_pc' = "done"
    /\ UNCHANGED p_uri
    /\ UNCHANGED <<proj_vars, conf_vars, cog_vars, log_vars, list_vars,
                    cache_vars, infra_vars>>

(***************************************************************************)
(* The project service on a bounded key-value store.                       *)
(***************************************************************************)
\* Two users, the id of one a prefix of the other's.
UserIds == {Repeat("u", 8), Repeat("u", 8) \o <<"2">>}
ProjectIds == 1..MaxProjectId

\* What a reference attribute may hold: nothing (the attribute is absent),
\* the empty string, a well-formed URI, and URIs the parser has to judge.
RefPool ==
    {<<>>,
     S3Scheme \o <<"a", "b", "c", "/", "k">>,
     S3Scheme \o <<"a", "b", "c", "/", ".", ".", "/", "k">>,
     S3Scheme \o <<"A", "B", "/", "k">>,
     S3Scheme \o <<"a", "b", "c", "/", "k", NL, ".", ".">>}
RefChoices == {None} \cup {Some(r) : r \in RefPool}

\* The item the pipeline stores for a user's project; every reference
\* attribute holds the same reference, or all are absent.
Item(user_id, project_id, ref) ==
    [UserId |-> user_id, ProjectId |-> project_id,
     Title |-> <<"t">> \o user_id \o IntToStr(project_id),
     CreativeBriefId |-> <<"c", "b">>, AssetsScriptId |-> <<"a", "s">>]
    @@ (IF ref = None THEN <<>>
        ELSE [PPMRef |-> ref[1], ScriptRef |-> ref[1],
              CreativeBriefUrl |-> ref[1], AssetsScriptUrl |-> ref[1]])

\* What object storage may answer: s3_get_json gives None, an empty
\* document or a document; s3_get_text gives None, an empty or a full text.
JsonAnswers == {None, Some(<<>>), Some([title |-> <<"T">>, scenes |-> <<"S">>])}
TextAnswers == {None, Some(<<>>), Some(<<"t", "e", "x", "t">>)}
PpmFields == {"title", "cast"}

NoRequest == [op |-> "none", user_id |-> <<>>, project_id |-> 0, field |-> ""]
NoHttp == Http(0, <<>>, None)

ProjIdle ==
    /\ pj_table = <<>>
    /\ pj_pc = "idle"
    /\ pj_req = NoRequest
    /\ pj_item = None
    /\ pj_events = <<>>
    /\ pj_result = NoHttp
    /\ pj_content = <<>>
    /\ pj_objects = <<>>

\* Object storage holds at most the object the well-formed references
\* name; it reads as any of the answers above.
ObjectKeys == {<< <<"a", "b", "c">>, <<"k">> >>}
ObjectStores == [ObjectKeys -> [json : JsonAnswers, text : TextAnswers]]

InitProj ==
    /\ \E present \in SUBSET (UserIds \X ProjectIds) :
         /\ Cardinality(present) <= MaxItems
         /\ \E refs \in [present -> RefChoices] :
              pj_table =
                [k \in {StoredKey(x[1], x[2]) : x \in present} |->
                    LET x == CHOOSE y \in present : StoredKey(y[1], y[2]) = k
                    IN  Item(x[1], x[2], refs[x])]
    /\ pj_pc = "idle"
    /\ pj_req = NoRequest
    /\ pj_item = None
    /\ pj_events = <<>>
    /\ pj_result = NoHttp
    /\ pj_content = <<>>
    /\ pj_objects \in ObjectStores

\* A caller starts a read operation; the handler awaits dynamodb_get_item.
Call(op, user_id, project_id, field) ==
    /\ pj_pc = "idle"
    /\ pj_req' = [op |-> op, user_id |-> user_id, project_id |-> project_id,
                  field |-> field]
    /\ pj_pc' = "dynamodb"
    /\ pj_item' = None
    /\ pj_events' = <<>>
    /\ pj_result' = NoHttp
    /\ pj_content' = <<>>
    /\ UNCHANGED <<pj_table, pj_objects>>

\* _get_project_item returns or raises, and the handler runs on to its
\* response or to the object-storage read it awaits next.
DynamoDBReply ==
    /\ pj_pc = "dynamodb"
    /\ LET item == DynamoGetItem(pj_table, MakePK(pj_req.user_id),
                                 MakeSK(pj_req.project_id))
       IN  /\ pj_item' = item
           /\ IF item = None
              THEN /\ pj_result' = Http(404, <<"Project not found or access denied">>, None)
                   /\ pj_pc' = "done"
                   /\ UNCHANGED pj_events
              ELSE IF pj_req.op = "get_project_metadata"
              THEN /\ pj_result' = Http(200, <<>>,
                          ProjectMetadata(item[1], pj_req.project_id, pj_req.user_id))
                   /\ pj_pc' = "done"
                   /\ UNCHANGED pj_events
              ELSE IF pj_req.op = "get_assets"
              THEN /\ pj_result' = Http(200, <<>>, ProjectAssets(item[1]))
                   /\ pj_pc' = "done"
                   /\ UNCHANGED pj_events
              ELSE LET st == S3ContentSteps(ItemGet(item[1], RefField(pj_req.op)),
                                            ContentName(pj_req.op))
                   IN  /\ pj_events' = st.events
                       /\ pj_result' = st.result
                       /\ pj_pc' = st.next
    /\ UNCHANGED <<pj_table, pj_req, pj_content, pj_objects>>

\* s3_get_json / s3_get_text answers and the handler finishes.
S3Reply(content) ==
    /\ pj_pc = "s3"
    /\ LET read == pj_events[Len(pj_events)]
       IN  content = S3Get(pj_objects,
                           IF pj_req.op \in TextOps THEN "text" ELSE "json",
                           read.bucket, read.key)
    /\ pj_result' = AfterS3Read(pj_req.op, pj_item[1], pj_req.field, content)
    /\ pj_pc' = "done"
    /\ pj_content' = <<content>>
    /\ UNCHANGED <<pj_table, pj_req, pj_item, pj_events, pj_objects>>

\* The response is delivered; the service takes the next request.
Respond ==
    /\ pj_pc = "done"
    /\ pj_pc' = "idle"
    /\ pj_req' = NoRequest
    /\ pj_item' = None
    /\ pj_events' = <<>>
    /\ pj_result' = NoHttp
    /\ pj_content' = <<>>
    /\ UNCHANGED <<pj_table, pj_objects>>

(***************************************************************************)
(* The configuration resolver over bounded environments.                   *)
(***************************************************************************)
\* The Field defaults of Settings (config.py:22-51).
DefaultSettings ==
    [ENVIRONMENT |-> "development", USE_AWS_PARAMETER_STORE |-> FALSE,
     DATABASE_URL |-> "", DB_HOST |-> "", DB_PORT |-> "5432",
     DB_USERNAME |-> "", DB_PASSWORD |-> <<>>, DB_NAME |-> "postgres"]

\* What the process environment and .env may set.
Environments ==
    {[DefaultSettings EXCEPT !.ENVIRONMENT = e, !.USE_AWS_PARAMETER_STORE = u,
                             !.DATABASE_URL = d, !.DB_HOST = h,
                             !.DB_USERNAME = n, !.DB_PASSWORD = w] :
        e \in {"development", "staging", "production"}, u \in BOOLEAN,
        d \in {"", "postgresql://env"}, h \in {"", "db.host"},
        n \in {"", "admin"}, w \in {<<>>, <<"p", "@", "w">>}}

\* Parameter Store: unreachable, or holding parameters under the path.
ParameterSets ==
    {<<>>, [log_level |-> "INFO"], [database_url |-> ""],
     [database_url |-> "postgresql://ps1"], [database_url |-> "postgresql://ps2"]}
StoreStates ==
    {[up |-> FALSE, params |-> <<>>]}
        \cup {[up |-> TRUE, params |-> ps] : ps \in ParameterSets}

\* The local file: the DB_* lines it holds ("" for a line it lacks).
EnvFile(h, n, w) ==
    [DB_HOST |-> h, DB_PORT |-> "", DB_USERNAME |-> n, DB_PASSWORD |-> w,
     DB_NAME |-> ""]
EnvFiles ==
    {None, Some(EnvFile("", "", <<>>)), Some(EnvFile("file.host", "", <<"f", "p">>)),
     Some(EnvFile("file.host", "fuser", <<"f", "p">>))}

\* Settings(): the fields as the environment sets them.
NewSettings(env) == env

NoCall == Outcome("none", "", DefaultSettings, <<>>, 0, FALSE) @@ [pre |-> DefaultSettings]

ConfIdle ==
    /\ cf_env = DefaultSettings
    /\ cf_store = [up |-> FALSE, params |-> <<>>]
    /\ cf_file = None
    /\ cf_settings = None
    /\ cf_created = 0
    /\ cf_calls = 0
    /\ cf_returned = FALSE
    /\ cf_last = NoCall

InitConf ==
    /\ cf_env \in Environments
    /\ cf_store \in StoreStates
    /\ cf_file \in EnvFiles
    /\ cf_settings = None
    /\ cf_created = 0
    /\ cf_calls = 0
    /\ cf_returned = FALSE
    /\ cf_last = NoCall

\* One call of get_settings, from the lazy construction to return or raise.
GetSettings ==
    /\ cf_calls < MaxCalls
    /\ LET s0 == IF cf_settings = None THEN NewSettings(cf_env) ELSE cf_settings[1]
           out == ResolveSettings(s0, cf_store, cf_file)
       IN  /\ cf_settings' = Some(out.settings)
           /\ cf_created' = IF cf_settings = None THEN cf_created + 1 ELSE cf_created
           /\ cf_returned' = (cf_returned \/ out.kind = "returned")
           /\ cf_last' = out @@ [pre |-> s0]
    /\ cf_calls' = cf_calls + 1
    /\ UNCHANGED <<cf_env, cf_store, cf_file>>

\* An operator of the deployment changes Parameter Store, or it becomes
\* unreachable or reachable again.
ParameterStoreChange(new) ==
    /\ new # cf_store
    /\ cf_store' = new
    /\ UNCHANGED <<cf_env, cf_file, cf_settings, cf_created, cf_calls,
                   cf_returned, cf_last>>

(***************************************************************************)
(* The identity adapter: one invocation at a time.                         *)
(***************************************************************************)
NoOutcome == [kind |-> "none", cls |-> "", msg |-> "", value |-> None]
NoParams == [method |-> "none", ClientId |-> None, SecretHash |-> None]
NoClient == [client_id |-> <<>>, client_secret |-> None]

\* client_secret: Optional[str] = None (line 89): absent, empty or set.
ClientSecrets == {None, Some(<<>>), Some(<<"k">>)}
ClientIds == {<<"c">>}
Clients == [client_id : ClientIds, client_secret : ClientSecrets]
Usernames == {<<"u">>, <<"v", "w">>}

CogIdle ==
    /\ cg_client = NoClient
    /\ cg_username = <<>>
    /\ cg_request = NoParams
    /\ cg_pc = "idle"
    /\ cg_op = "none"
    /\ cg_outer = 0
    /\ cg_attempt = 0
    /\ cg_answers = <<>>
    /\ cg_result = NoOutcome

\* CognitoClient.__init__ (lines 88-96), nothing invoked yet.
InitCog ==
    /\ cg_client \in Clients
    /\ cg_username = <<>>
    /\ cg_request = NoParams
    /\ cg_pc = "idle"
    /\ cg_op = "none"
    /\ cg_outer = 0
    /\ cg_attempt = 0
    /\ cg_answers = <<>>
    /\ cg_result = NoOutcome

\* A caller invokes an operation; the decorator starts its first attempt.
Invoke(op, username) ==
    /\ cg_username' = username
    /\ cg_request' = NoParams
    /\ UNCHANGED cg_client
    /\ cg_pc \in {"idle", "done"}
    /\ cg_op' = op
    /\ cg_pc' = "run"
    /\ cg_outer' = 1
    /\ cg_attempt' = 1
    /\ cg_answers' = <<>>
    /\ cg_result' = NoOutcome

\* One attempt: the body calls the provider, which answers, and the retry
\* decorators (one, or two nested for the link_* operations) either start
\* the next attempt or let the outcome out (reraise=True).
ProviderCall(answer) ==
    /\ cg_pc = "run"
    /\ cg_request' = BuildParams(BodyOp(cg_op), cg_client, cg_username)
    /\ cg_answers' = Append(cg_answers, answer)
    /\ LET outcome == Body(BodyOp(cg_op), answer)
       IN  IF ShouldRetry(outcome) /\ cg_attempt < StopAfterAttempt
           THEN /\ cg_attempt' = cg_attempt + 1
                /\ UNCHANGED <<cg_pc, cg_outer, cg_result>>
           ELSE IF cg_op \in LinkOps /\ ShouldRetry(outcome)
                   /\ cg_outer < StopAfterAttempt
           THEN /\ cg_outer' = cg_outer + 1
                /\ cg_attempt' = 1
                /\ UNCHANGED <<cg_pc, cg_result>>
           ELSE /\ cg_result' = outcome
                /\ cg_pc' = "done"
                /\ UNCHANGED <<cg_outer, cg_attempt>>
    /\ UNCHANGED <<cg_op, cg_client, cg_username>>

(***************************************************************************)
(* Logging on bounded events.                                              *)
(***************************************************************************)
MaxEventKeys == 2
MaxMask == 2

EventKeys == {<<"p", "a", "s", "s", "w", "o", "r", "d">>, <<"T", "o", "k", "e", "n">>, <<"e", "v", "e", "n", "t">>, <<"u", "s", "e", "r">>}
EventValues ==
    {Str(<<>>), Str(Stars),
     Str(<<"a", "b", "c", "d", "e", "f", "g", "h">>),
     Str(<<"a", "b", "c", "d", "e", "f", "g", "h", "i">>),
     Str(<<"a", "b", "c", "d", "*", "*", "*", "*", "f", "g", "h", "i">>),
     NonStr("int", <<"1", "2", "3", "4", "5", "6", "7", "8", "9">>),
     NonStr("NoneType", <<"N", "o", "n", "e">>)}
EventDicts ==
    UNION {[ks -> EventValues] :
              ks \in {k \in SUBSET EventKeys : Cardinality(k) <= MaxEventKeys}}

\* What a caller may pass as phone_number: phone numbers, and the strings
\* of quotes, backslashes and a letter.
MaxValueLen == 3
PhoneNumbers ==
    {<<"+", "8", "6", "1", "3", "8", "1", "2", "3", "4", "5", "6", "7", "8">>,
     <<"+", "8", "6", "1", "3", "8">>}
        \cup (SeqsUpTo({"\"", "\\", "a"}, MaxValueLen) \ {<<>>})
DatabaseUrls == {<<"p", "o", "s", "t", "g", "r", "e", "s", "q", "l", ":", "/", "/", "u", ":", "p", "w", "@", "h", ":", "5", "4", "3", "2", "/", "d", "b">>}

LogIdle ==
    /\ lg_in = <<>>
    /\ lg_event = <<>>
    /\ lg_n = 0
    /\ lg_given = <<>>
    /\ lg_written = <<>>

InitLog ==
    /\ lg_in \in EventDicts
    /\ lg_event = lg_in
    /\ lg_n = 0
    /\ lg_given = <<>>
    /\ lg_written = <<>>

\* The processor mask_sensitive_data runs on the event dictionary.
Mask ==
    /\ lg_n < MaxMask
    /\ lg_event' = MaskSensitiveData(lg_event)
    /\ lg_n' = lg_n + 1
    /\ UNCHANGED <<lg_in, lg_given, lg_written>>

\* list_users_by_phone logs its query: the event goes through the
\* processors of setup_logging (logging.py:97-116), of which
\* mask_sensitive_data is the one that changes values, and is rendered.
LogListUsersByPhoneQuery(phone_number) ==
    /\ lg_written = <<>>
    /\ lg_given' = phone_number
    /\ lg_written' =
           <<MaskSensitiveData(ListUsersByPhoneQueryEvent(phone_number))>>
    /\ UNCHANGED <<lg_in, lg_event, lg_n>>

\* get_settings prints the connection string it resolved.
LogFinalDatabaseUrl(database_url) ==
    /\ lg_written = <<>>
    /\ lg_given' = database_url
    /\ lg_written' = <<PrintFinalDatabaseUrl(database_url)>>
    /\ UNCHANGED <<lg_in, lg_event, lg_n>>

(***************************************************************************)
(* The list endpoint on bounded tables: pages 1, 2, ... of one query.      *)
(***************************************************************************)
MaxRows == 3
MaxPage == 3
MaxPageSize == 2

RowUserIds == {<<"a">>, <<"b">>}
RowTimes == {1, 2}

\* project_id is the primary key: one row per id.
Tables ==
    UNION {{{[project_id |-> id, user_id |-> f[id].u, created_at |-> f[id].t]
                : id \in ids}
              : f \in [ids -> [u : RowUserIds, t : RowTimes]]}
              : ids \in SUBSET (1..MaxRows)}

\* page_size = 0 is what a direct call can pass; Query(ge=1) keeps it from
\* HTTP requests.
Queries ==
    [project_id : {None, Some(0), Some(1)},
     user_id : {None, Some(<<>>), Some(<<"a">>)},
     start_time : {None, Some(2)},
     end_time : {None, Some(1), Some(2)},
     page_size : 0..MaxPageSize]

NoQuery ==
    [project_id |-> None, user_id |-> None, start_time |-> None,
     end_time |-> None, page_size |-> 0]

ListIdle ==
    /\ ls_table = {}
    /\ ls_query = NoQuery
    /\ ls_resps = <<>>

InitList ==
    /\ ls_table \in Tables
    /\ ls_query \in Queries
    /\ ls_resps = <<>>

\* A listing that consumed what it returned: the rows of the page leave the
\* table.
ListProjectsExpunging ==
    /\ Len(ls_resps) < MaxPage
    /\ \E ord \in OrderedByCreatedAtDesc(Filtered(ls_table, ls_query)) :
           LET resp == ListResponse(ls_table, ls_query, Len(ls_resps) + 1, ord)
           IN  /\ ls_resps' = Append(ls_resps, resp)
               /\ ls_table' = ls_table \ {resp.items[i] : i \in DOMAIN resp.items}
    /\ UNCHANGED ls_query

\* list_projects for the next page: count, then the page of the ordered
\* rows.
ListProjects ==
    /\ Len(ls_resps) < MaxPage
    /\ \E ord \in OrderedByCreatedAtDesc(Filtered(ls_table, ls_query)) :
           ls_resps' = Append(ls_resps,
                              ListResponse(ls_table, ls_query,
                                           Len(ls_resps) + 1, ord))
    /\ UNCHANGED <<ls_table, ls_query>>

(***************************************************************************)
(* The cached SDK handles (aws_clients.py:49-106, cognito.py:54-58) under   *)
(* callers running on several threads.  There is one region and one table  *)
(* name.  A handle is the number of its construction, 0 is none.           *)
(***************************************************************************)
MaxThreads == 2
Threads == 1..MaxThreads

\* The @lru_cache(maxsize=1) factories, and _get_table with its dict.
LruKinds == {"dynamodb", "s3", "sqs", "cognito"}
HandleKinds == LruKinds \cup {"table"}
CacheOps == {"get_aws_clients", "_get_cognito_client", "_get_table"}

\* The order of AWSClients.__init__ (lines 88-92).
FirstKind == "dynamodb"
NextKind(kind) ==
    CASE kind = "dynamodb" -> "s3"
      [] kind = "s3" -> "sqs"
      [] OTHER -> "none"

NoInstance == [id |-> 0, dynamodb |-> 0, s3 |-> 0, sqs |-> 0]
NoHandles == [kind \in {"dynamodb", "s3", "sqs"} |-> 0]
NoReturn == [handle |-> 0, instance |-> NoInstance]

CacheIdle ==
    /\ ca_pc = <<>>
    /\ ca_op = <<>>
    /\ ca_kind = <<>>
    /\ ca_local = <<>>
    /\ ca_ret = <<>>
    /\ ca_cache = <<>>
    /\ ca_made = <<>>
    /\ ca_clients = NoInstance
    /\ ca_instances = 0
    /\ ca_returned = {}

\* The process has started: nothing is cached, _aws_clients is None.
InitCache ==
    /\ ca_pc = [t \in Threads |-> "idle"]
    /\ ca_op = [t \in Threads |-> "none"]
    /\ ca_kind = [t \in Threads |-> "none"]
    /\ ca_local = [t \in Threads |-> NoHandles]
    /\ ca_ret = [t \in Threads |-> NoReturn]
    /\ ca_cache = [kind \in HandleKinds |-> 0]
    /\ ca_made = [kind \in HandleKinds |-> 0]
    /\ ca_clients = NoInstance
    /\ ca_instances = 0
    /\ ca_returned = {}

\* A thread calls one of the functions (each thread makes one call).
CallCached(t, op) ==
    /\ ca_pc[t] = "idle"
    /\ ca_op' = [ca_op EXCEPT ![t] = op]
    /\ ca_pc' = [ca_pc EXCEPT ![t] =
                    CASE op = "get_aws_clients" -> "check"
                      [] op = "_get_cognito_client" -> "lookup"
                      [] OTHER -> "table_check"]
    /\ ca_kind' = [ca_kind EXCEPT ![t] =
                      CASE op = "get_aws_clients" -> "none"
                        [] op = "_get_cognito_client" -> "cognito"
                        [] OTHER -> "table"]
    /\ ca_local' = [ca_local EXCEPT ![t] = NoHandles]
    /\ ca_ret' = [ca_ret EXCEPT ![t] = NoReturn]
    /\ UNCHANGED <<ca_cache, ca_made, ca_clients, ca_instances, ca_returned>>

\* get_aws_clients: `if _aws_clients is None:` (line 101); when it is not,
\* `return _aws_clients`.
CheckClients(t) ==
    /\ ca_pc[t] = "check"
    /\ IF ca_clients = NoInstance
       THEN /\ ca_pc' = [ca_pc EXCEPT ![t] = "lookup"]
            /\ ca_kind' = [ca_kind EXCEPT ![t] = FirstKind]
            /\ UNCHANGED <<ca_ret, ca_returned>>
       ELSE /\ ca_pc' = [ca_pc EXCEPT ![t] = "done"]
            /\ ca_ret' = [ca_ret EXCEPT ![t] =
                             [handle |-> 0, instance |-> ca_clients]]
            /\ ca_returned' = ca_returned \cup {ca_clients}
            /\ UNCHANGED ca_kind
    /\ UNCHANGED <<ca_op, ca_local, ca_cache, ca_made, ca_clients, ca_instances>>

\* Where a thread goes with the handle a factory gave it.
Got(t, handle) ==
    IF ca_op[t] = "get_aws_clients"
    THEN /\ ca_local' = [ca_local EXCEPT ![t][ca_kind[t]] = handle]
         /\ IF NextKind(ca_kind[t]) = "none"
            THEN /\ ca_pc' = [ca_pc EXCEPT ![t] = "assign"]
                 /\ UNCHANGED ca_kind
            ELSE /\ ca_pc' = [ca_pc EXCEPT ![t] = "lookup"]
                 /\ ca_kind' = [ca_kind EXCEPT ![t] = NextKind(ca_kind[t])]
         /\ UNCHANGED ca_ret
    ELSE /\ ca_ret' = [ca_ret EXCEPT ![t] =
                          [handle |-> handle, instance |-> NoInstance]]
         /\ ca_pc' = [ca_pc EXCEPT ![t] = "done"]
         /\ UNCHANGED <<ca_kind, ca_local>>

\* lru_cache looks the key up: a hit returns the cached handle, a miss goes
\* on to call the factory, with no lock held.
LruLookup(t) ==
    /\ ca_pc[t] = "lookup"
    /\ IF ca_cache[ca_kind[t]] # 0
       THEN Got(t, ca_cache[ca_kind[t]])
       ELSE /\ ca_pc' = [ca_pc EXCEPT ![t] = "make"]
            /\ UNCHANGED <<ca_kind, ca_local, ca_ret>>
    /\ UNCHANGED <<ca_op, ca_cache, ca_made, ca_clients, ca_instances,
                   ca_returned>>

\* The factory constructs a handle (boto3.client / boto3.resource);
\* lru_cache stores it unless the key was stored meanwhile, and returns the
\* handle just constructed either way.
LruMake(t) ==
    /\ ca_pc[t] = "make"
    /\ LET kind == ca_kind[t]
           handle == ca_made[kind] + 1
       IN  /\ ca_made' = [ca_made EXCEPT ![kind] = handle]
           /\ ca_cache' = [ca_cache EXCEPT ![kind] =
                              IF ca_cache[kind] = 0 THEN handle
                              ELSE ca_cache[kind]]
           /\ Got(t, handle)
    /\ UNCHANGED <<ca_op, ca_clients, ca_instances, ca_returned>>

\* get_aws_clients: `_aws_clients = AWSClients(...)`, `return _aws_clients`
\* (lines 105-106).
AssignClients(t) ==
    /\ ca_pc[t] = "assign"
    /\ LET instance == [id |-> ca_instances + 1,
                        dynamodb |-> ca_local[t]["dynamodb"],
                        s3 |-> ca_local[t]["s3"],
                        sqs |-> ca_local[t]["sqs"]]
       IN  /\ ca_instances' = ca_instances + 1
           /\ ca_clients' = instance
           /\ ca_ret' = [ca_ret EXCEPT ![t] =
                            [handle |-> 0, instance |-> instance]]
           /\ ca_returned' = ca_returned \cup {instance}
    /\ ca_pc' = [ca_pc EXCEPT ![t] = "done"]
    /\ UNCHANGED <<ca_op, ca_kind, ca_local, ca_cache, ca_made>>

\* _get_table: `if table_name not in _table_cache:` (line 77).
TableCheck(t) ==
    /\ ca_pc[t] = "table_check"
    /\ ca_pc' = [ca_pc EXCEPT ![t] =
                    IF ca_cache["table"] = 0 THEN "table_make"
                    ELSE "table_return"]
    /\ UNCHANGED <<ca_op, ca_kind, ca_local, ca_ret, ca_cache, ca_made,
                   ca_clients, ca_instances, ca_returned>>

\* `_table_cache[table_name] = dynamodb.Table(table_name)` (line 78).
TableMake(t) ==
    /\ ca_pc[t] = "table_make"
    /\ ca_made' = [ca_made EXCEPT !["table"] = @ + 1]
    /\ ca_cache' = [ca_cache EXCEPT !["table"] = ca_made["table"] + 1]
    /\ ca_pc' = [ca_pc EXCEPT ![t] = "table_return"]
    /\ UNCHANGED <<ca_op, ca_kind, ca_local, ca_ret, ca_clients,
                   ca_instances, ca_returned>>

\* `return _table_cache[table_name]` (line 80).
TableReturn(t) ==
    /\ ca_pc[t] = "table_return"
    /\ ca_ret' = [ca_ret EXCEPT ![t] =
                     [handle |-> ca_cache["table"], instance |-> NoInstance]]
    /\ ca_pc' = [ca_pc EXCEPT ![t] = "done"]
    /\ UNCHANGED <<ca_op, ca_kind, ca_local, ca_cache, ca_made, ca_clients,
                   ca_instances, ca_returned>>

(***************************************************************************)
(* load_parameters_from_aws_sync (aws_params.py:13-74) against a chain of  *)
(* pages: page i carries the token of page i + 1, the last page none.      *)
(***************************************************************************)
MaxPages == 2
MaxPageParams == 1

\* str.replace(old, ""): every occurrence of old, left to right.
RECURSIVE RemoveAll(_, _)
RemoveAll(s, old) ==
    IF Len(s) < Len(old)
    THEN s
    ELSE IF SubSeq(s, 1, Len(old)) = old
    THEN RemoveAll(SubSeq(s, Len(old) + 1, Len(s)), old)
    ELSE <<Head(s)>> \o RemoveAll(Tail(s), old)

\* str.lstrip(c)
RECURSIVE LStrip(_, _)
LStrip(s, c) == IF s # <<>> /\ Head(s) = c THEN LStrip(Tail(s), c) ELSE s

\* str.replace(old, new) for single characters.
ReplaceChar(s, old, new) ==
    [i \in 1..Len(s) |-> IF s[i] = old THEN new ELSE s[i]]

\* Line 49: param["Name"].replace(path, "").lstrip("/").replace("/", "_").
ParameterKey(name, path) ==
    ReplaceChar(LStrip(RemoveAll(name, path), "/"), "/", "_")

\* Lines 46-51: the parameters of one response go into the dict in order.
RECURSIVE PutAll(_, _, _)
PutAll(parameters, params, path) ==
    IF params = <<>>
    THEN parameters
    ELSE PutAll((ParameterKey(Head(params).Name, path) :> Head(params).Value)
                    @@ parameters,
                Tail(params), path)

\* The path the loader is called with and the parameters under it.
ParameterPath == <<"/", "p">>
ParameterNames ==
    {ParameterPath \o <<"/", "a">>, ParameterPath \o <<"/", "b">>,
     ParameterPath \o <<"/", "a", "/", "b">>,
     ParameterPath \o <<"/", "a", "/", "p">>}
Parameters == [Name : ParameterNames, Value : {"v1", "v2"}]

\* One get_parameters_by_path call: it raises, or answers with parameters.
Pages == [Parameters : SeqsUpTo(Parameters, MaxPageParams), fails : BOOLEAN]
PageChains == UNION {[1..n -> Pages] : n \in 1..MaxPages}

ParamsIdle ==
    /\ pm_pages = <<>>
    /\ pm_pc = "idle"
    /\ pm_token = None
    /\ pm_parameters = <<>>
    /\ pm_requests = 0
    /\ pm_result = None

\* Lines 29-33: the loader has been called and stands before the loop.
InitPm ==
    /\ pm_pages \in PageChains
    /\ pm_pc = "loop"
    /\ pm_token = None
    /\ pm_parameters = <<>>
    /\ pm_requests = 0
    /\ pm_result = None

\* One pass of the while loop (lines 36-56), with the return of line 65
\* when the response has no token and of line 74 when the call raised.
GetParametersByPath ==
    /\ pm_pc = "loop"
    /\ pm_requests' = pm_requests + 1
    /\ LET i == IF pm_token = None THEN 1 ELSE pm_token[1]
           response == pm_pages[i]
       IN  IF response.fails
           THEN /\ pm_result' = Some(<<>>)
                /\ pm_pc' = "done"
                /\ UNCHANGED <<pm_parameters, pm_token>>
           ELSE LET parameters == PutAll(pm_parameters, response.Parameters,
                                         ParameterPath)
                    next_token == IF i < Len(pm_pages) THEN Some(i + 1) ELSE None
                IN  /\ pm_parameters' = parameters
                    /\ pm_token' = next_token
                    /\ IF next_token = None
                       THEN /\ pm_result' = Some(parameters)
                            /\ pm_pc' = "done"
                       ELSE UNCHANGED <<pm_result, pm_pc>>
    /\ UNCHANGED pm_pages

(***************************************************************************)
(* SQLAlchemyRepository (repositories/base.py:57-103) on one session over  *)
(* one table; a row is its primary key and a title.                        *)
(***************************************************************************)
MaxIds == 2
MaxOps == 3

EntityIds == 1..MaxIds
Titles == {"x", "y"}
Entity(id, title) == [id |-> id, title |-> title]

\* get_by_id (lines 71-73): query.get(id).
GetById(rows, id) == IF id \in DOMAIN rows THEN Some(rows[id]) ELSE None

\* exists (lines 101-103).
Exists(rows, id) == GetById(rows, id) # None

\* db.add(entity); db.commit() (lines 81-82).
AddRow(rows, entity) == (entity.id :> entity) @@ rows

\* db.delete(entity); db.commit() (lines 96-97).
RemoveRowNever(rows, id) == rows
RemoveRow(rows, id) == [k \in DOMAIN rows \ {id} |-> rows[k]]

\* delete (lines 92-99): the rows it leaves and what it returns.
Delete(rows, id) ==
    IF GetById(rows, id) # None
    THEN [rows |-> RemoveRow(rows, id), result |-> TRUE]
    ELSE [rows |-> rows, result |-> FALSE]

RepositoryTables ==
    UNION {{[id \in ids |-> Entity(id, t[id])] : t \in [ids -> Titles]}
              : ids \in SUBSET EntityIds}

RepoIdle ==
    /\ rp_rows = <<>>
    /\ rp_hist = <<>>

InitRepo ==
    /\ rp_rows \in RepositoryTables
    /\ rp_hist = <<>>

RepoCall(op, id, result, after) ==
    [op |-> op, id |-> id, result |-> result, before |-> rp_rows, after |-> after]

RepoGetById(id) ==
    /\ Len(rp_hist) < MaxOps
    /\ rp_hist' = Append(rp_hist, RepoCall("get_by_id", id, GetById(rp_rows, id), rp_rows))
    /\ UNCHANGED rp_rows

RepoExists(id) ==
    /\ Len(rp_hist) < MaxOps
    /\ rp_hist' = Append(rp_hist, RepoCall("exists", id, Exists(rp_rows, id), rp_rows))
    /\ UNCHANGED rp_rows

\* create of an entity whose id is not taken.
RepoCreate(entity) ==
    /\ Len(rp_hist) < MaxOps
    /\ ~Exists(rp_rows, entity.id)
    /\ rp_rows' = AddRow(rp_rows, entity)
    /\ rp_hist' = Append(rp_hist, RepoCall("create", entity.id, entity, rp_rows'))

RepoDelete(id) ==
    /\ Len(rp_hist) < MaxOps
    /\ LET out == Delete(rp_rows, id)
       IN  /\ rp_rows' = out.rows
           /\ rp_hist' = Append(rp_hist, RepoCall("delete", id, out.result, out.rows))

(***************************************************************************)
(* get_db (database.py:94-110) under requests the framework serves side by *)
(* side: it runs get_db to the yield, the handler with the session, and    *)
(* the rest of get_db once the handler has returned or raised.             *)
(***************************************************************************)
MaxRequests == 2
MaxSessions == 3

Requests == 1..MaxRequests
Sessions == 1..MaxSessions

SessIdle ==
    /\ db_pc = <<>>
    /\ db_session = <<>>
    /\ db_outcome = <<>>
    /\ db_open = {}
    /\ db_closes = <<>>
    /\ db_made = 0

InitSess ==
    /\ db_pc = [r \in Requests |-> "idle"]
    /\ db_session = [r \in Requests |-> 0]
    /\ db_outcome = [r \in Requests |-> "none"]
    /\ db_open = {}
    /\ db_closes = [x \in Sessions |-> 0]
    /\ db_made = 0

\* Lines 106-108: db = SessionLocal(), and the session is yielded to the
\* handler of request r.
GetDb(r) ==
    /\ db_pc[r] \in {"idle", "finished"}
    /\ db_made < MaxSessions
    /\ db_made' = db_made + 1
    /\ db_open' = db_open \cup {db_made'}
    /\ db_session' = [db_session EXCEPT ![r] = db_made']
    /\ db_outcome' = [db_outcome EXCEPT ![r] = "none"]
    /\ db_pc' = [db_pc EXCEPT ![r] = "yielded"]
    /\ UNCHANGED db_closes

\* The handler ends: get_db is resumed at the yield, or the handler's
\* exception is thrown into it there.
HandlerEnds(r, outcome) ==
    /\ db_pc[r] = "yielded"
    /\ db_outcome' = [db_outcome EXCEPT ![r] = outcome]
    /\ db_pc' = [db_pc EXCEPT ![r] = "finally"]
    /\ UNCHANGED <<db_session, db_open, db_closes, db_made>>

\* Lines 109-110: finally: db.close().
CloseSkippedAfterRaise(r) ==
    /\ db_pc[r] = "finally"
    /\ db_pc' = [db_pc EXCEPT ![r] = "finished"]
    /\ IF db_outcome[r] = "raised"
       THEN UNCHANGED <<db_open, db_closes>>
       ELSE /\ db_open' = db_open \ {db_session[r]}
            /\ db_closes' = [db_closes EXCEPT ![db_session[r]] = @ + 1]
    /\ UNCHANGED <<db_session, db_outcome, db_made>>
Close(r) ==
    /\ db_pc[r] = "finally"
    /\ db_pc' = [db_pc EXCEPT ![r] = "finished"]
    /\ db_open' = db_open \ {db_session[r]}
    /\ db_closes' = [db_closes EXCEPT ![db_session[r]] = @ + 1]
    /\ UNCHANGED <<db_session, db_outcome, db_made>>

InfraIdle ==
    /\ ParamsIdle
    /\ RepoIdle
    /\ SessIdle

(***************************************************************************)
(* Specifications.                                                         *)
(***************************************************************************)
InitParse ==
    /\ p_pc = "input"
    /\ \E sch \in UriSchemes, b \in BucketInputs, k \in KeyInputs :
           p_uri = sch \o b \o <<"/">> \o k
    /\ p_result = NoResult
    /\ ProjIdle
    /\ ConfIdle
    /\ CogIdle
    /\ LogIdle
    /\ ListIdle
    /\ CacheIdle
    /\ InfraIdle

NextParse == Parse

SpecParse == InitParse /\ [][NextParse]_vars

InitProject ==
    /\ ParseIdle
    /\ InitProj
    /\ ConfIdle
    /\ CogIdle
    /\ LogIdle
    /\ ListIdle
    /\ CacheIdle
    /\ InfraIdle

NextProject ==
    \/ /\ \E op \in ReadOps, u \in UserIds, pid \in ProjectIds :
            \E f \in (IF op = "get_ppm_field" THEN PpmFields ELSE {""}) :
                Call(op, u, pid, f)
       /\ UNCHANGED <<parse_vars, conf_vars, cog_vars, log_vars,
                     list_vars, cache_vars, infra_vars>>
    \/ /\ DynamoDBReply
       /\ UNCHANGED <<parse_vars, conf_vars, cog_vars, log_vars,
                     list_vars, cache_vars, infra_vars>>
    \/ /\ \E c \in (IF pj_req.op \in TextOps THEN TextAnswers ELSE JsonAnswers) :
            S3Reply(c)
       /\ UNCHANGED <<parse_vars, conf_vars, cog_vars, log_vars,
                     list_vars, cache_vars, infra_vars>>
    \/ /\ Respond
       /\ UNCHANGED <<parse_vars, conf_vars, cog_vars, log_vars,
                     list_vars, cache_vars, infra_vars>>

SpecProject == InitProject /\ [][NextProject]_vars

InitConfig ==
    /\ ParseIdle
    /\ ProjIdle
    /\ InitConf
    /\ CogIdle
    /\ LogIdle
    /\ ListIdle
    /\ CacheIdle
    /\ InfraIdle

NextConfig ==
    \/ /\ GetSettings
       /\ UNCHANGED <<parse_vars, proj_vars, cog_vars, log_vars,
                     list_vars, cache_vars, infra_vars>>
    \/ /\ \E new \in StoreStates : ParameterStoreChange(new)
       /\ UNCHANGED <<parse_vars, proj_vars, cog_vars, log_vars,
                     list_vars, cache_vars, infra_vars>>

SpecConfig == InitConfig /\ [][NextConfig]_vars

InitCognito ==
    /\ ParseIdle
    /\ ProjIdle
    /\ ConfIdle
    /\ InitCog
    /\ LogIdle
    /\ ListIdle
    /\ CacheIdle
    /\ InfraIdle

NextCognito ==
    \/ /\ \E op \in CognitoOps, username \in Usernames : Invoke(op, username)
       /\ UNCHANGED <<parse_vars, proj_vars, conf_vars, log_vars,
                     list_vars, cache_vars, infra_vars>>
    \/ /\ \E answer \in ProviderAnswers : ProviderCall(answer)
       /\ UNCHANGED <<parse_vars, proj_vars, conf_vars, log_vars,
                     list_vars, cache_vars, infra_vars>>

SpecCognito == InitCognito /\ [][NextCognito]_vars

InitLogging ==
    /\ ParseIdle
    /\ ProjIdle
    /\ ConfIdle
    /\ CogIdle
    /\ InitLog
    /\ ListIdle
    /\ CacheIdle
    /\ InfraIdle

NextLogging ==
    \/ /\ Mask
       /\ UNCHANGED <<parse_vars, proj_vars, conf_vars, cog_vars,
                     list_vars, cache_vars, infra_vars>>
    \/ /\ \E phone_number \in PhoneNumbers :
              LogListUsersByPhoneQuery(phone_number)
       /\ UNCHANGED <<parse_vars, proj_vars, conf_vars, cog_vars,
                     list_vars, cache_vars, infra_vars>>
    \/ /\ \E database_url \in DatabaseUrls : LogFinalDatabaseUrl(database_url)
       /\ UNCHANGED <<parse_vars, proj_vars, conf_vars, cog_vars,
                     list_vars, cache_vars, infra_vars>>

SpecLogging == InitLogging /\ [][NextLogging]_vars

InitListing ==
    /\ ParseIdle
    /\ ProjIdle
    /\ ConfIdle
    /\ CogIdle
    /\ LogIdle
    /\ InitList
    /\ CacheIdle
    /\ InfraIdle

NextListing ==
    /\ ListProjects
    /\ UNCHANGED <<parse_vars, proj_vars, conf_vars, cog_vars,
                     log_vars, cache_vars, infra_vars>>

SpecListing == InitListing /\ [][NextListing]_vars

\* The read paths side by side: list_projects requests interleaved with the
\* ProjectService reads, over one stored item whose references are absent
\* or well formed, objects that read as content, the full table of one
\* user whose first row is newer than the others, and an unfiltered query
\* of the largest page size.
InitReadOnly ==
    /\ ParseIdle
    /\ InitProj
    /\ Cardinality(DOMAIN pj_table) = 1
    /\ \A k \in DOMAIN pj_table :
           ItemGet(pj_table[k], "ScriptRef")
               \in {None, Some(S3Scheme \o <<"a", "b", "c", "/", "k">>)}
    /\ \A k \in DOMAIN pj_objects :
           /\ pj_objects[k].json \notin {None, Some(<<>>)}
           /\ pj_objects[k].text \notin {None, Some(<<>>)}
    /\ ConfIdle
    /\ CogIdle
    /\ LogIdle
    /\ InitList
    /\ Cardinality(ls_table) = MaxRows
    /\ \A row \in ls_table :
           /\ row.user_id = <<"a">>
           /\ row.created_at = IF row.project_id = 1 THEN 2 ELSE 1
    /\ ls_query = [NoQuery EXCEPT !.page_size = MaxPageSize]
    /\ CacheIdle
    /\ InfraIdle

NextReadOnly ==
    \/ NextProject
    \/ NextListing

SpecReadOnly == InitReadOnly /\ [][NextReadOnly]_vars

InitParams ==
    /\ ParseIdle
    /\ ProjIdle
    /\ ConfIdle
    /\ CogIdle
    /\ LogIdle
    /\ ListIdle
    /\ CacheIdle
    /\ InitPm
    /\ RepoIdle
    /\ SessIdle

NextParams ==
    /\ GetParametersByPath
    /\ UNCHANGED <<parse_vars, proj_vars, conf_vars, cog_vars, log_vars,
                   list_vars, cache_vars, repo_vars, sess_vars>>

SpecParams == InitParams /\ [][NextParams]_vars

InitRepository ==
    /\ ParseIdle
    /\ ProjIdle
    /\ ConfIdle
    /\ CogIdle
    /\ LogIdle
    /\ ListIdle
    /\ CacheIdle
    /\ ParamsIdle
    /\ InitRepo
    /\ SessIdle

RestOfRepositoryUnchanged ==
    UNCHANGED <<parse_vars, proj_vars, conf_vars, cog_vars, log_vars,
                list_vars, cache_vars, params_vars, sess_vars>>

NextRepository ==
    \/ (\E id \in EntityIds : RepoGetById(id)) /\ RestOfRepositoryUnchanged
    \/ (\E id \in EntityIds : RepoExists(id)) /\ RestOfRepositoryUnchanged
    \/ (\E id \in EntityIds, title \in Titles : RepoCreate(Entity(id, title)))
           /\ RestOfRepositoryUnchanged
    \/ (\E id \in EntityIds : RepoDelete(id)) /\ RestOfRepositoryUnchanged

SpecRepository == InitRepository /\ [][NextRepository]_vars

InitSession ==
    /\ ParseIdle
    /\ ProjIdle
    /\ ConfIdle
    /\ CogIdle
    /\ LogIdle
    /\ ListIdle
    /\ CacheIdle
    /\ ParamsIdle
    /\ RepoIdle
    /\ InitSess

RestOfSessionUnchanged ==
    UNCHANGED <<parse_vars, proj_vars, conf_vars, cog_vars, log_vars,
                list_vars, cache_vars, params_vars, repo_vars>>

CloseOf(r) == Close(r) /\ RestOfSessionUnchanged

NextSession ==
    \/ (\E r \in Requests : GetDb(r)) /\ RestOfSessionUnchanged
    \/ (\E r \in Requests, outcome \in {"returned", "raised"} :
            HandlerEnds(r, outcome)) /\ RestOfSessionUnchanged
    \/ \E r \in Requests : CloseOf(r)

\* The framework runs the rest of every dependency with yield once the
\* handler has ended.
SpecSession ==
    /\ InitSession
    /\ [][NextSession]_vars
    /\ \A r \in Requests : WF_vars(CloseOf(r))

InitClients ==
    /\ ParseIdle /\ ProjIdle /\ ConfIdle /\ CogIdle /\ LogIdle /\ ListIdle
    /\ InitCache
    /\ InfraIdle

OthersUnchanged ==
    UNCHANGED <<parse_vars, proj_vars, conf_vars, cog_vars, log_vars, list_vars,
                infra_vars>>

NextClients ==
    \/ (\E t \in Threads, op \in CacheOps : CallCached(t, op)) /\ OthersUnchanged
    \/ (\E t \in Threads : CheckClients(t)) /\ OthersUnchanged
    \/ (\E t \in Threads : LruLookup(t)) /\ OthersUnchanged
    \/ (\E t \in Threads : LruMake(t)) /\ OthersUnchanged
    \/ (\E t \in Threads : AssignClients(t)) /\ OthersUnchanged
    \/ (\E t \in Threads : TableCheck(t)) /\ OthersUnchanged
    \/ (\E t \in Threads : TableMake(t)) /\ OthersUnchanged
    \/ (\E t \in Threads : TableReturn(t)) /\ OthersUnchanged

SpecClients == InitClients /\ [][NextClients]_vars

\* The parts of an input of the form s3://<bucket>/<key>, read off the string
\* itself: the bucket runs to the first "/" after the scheme, the key part is
\* everything after that "/".
HasS3Shape(s) ==
    StartsWith(s, S3Scheme) /\ FirstIndex(Drop(s, Len(S3Scheme)), "/") > 1
UriBucketPart(s) ==
    LET rest == Drop(s, Len(S3Scheme)) IN Take(rest, FirstIndex(rest, "/") - 1)
UriKeyPart(s) ==
    LET rest == Drop(s, Len(S3Scheme)) IN Drop(rest, FirstIndex(rest, "/"))

\* C2: every URI s3://<bucket>/<key> whose key part contains ".." or begins
\* with "/" is rejected by _parse_s3_uri (it returns no pair).
C2_TraversalKeyRejected ==
    (p_pc = "done" /\ HasS3Shape(p_uri) /\ KeyIsTraversal(UriKeyPart(p_uri)))
        => ~p_result.ok

\* C3: every bucket _parse_s3_uri returns is 3 to 63 characters of
\* [a-z0-9.-] that start and end with a letter or digit; a URI whose bucket
\* part is not of that form is rejected.
C3_BucketPatternEnforced ==
    /\ (p_pc = "done" /\ p_result.ok) => BucketFullMatch(p_result.bucket)
    /\ (p_pc = "done" /\ HasS3Shape(p_uri)
            /\ ~BucketFullMatch(UriBucketPart(p_uri))) => ~p_result.ok

(***************************************************************************)
(* Claims about the project service.                                       *)
(***************************************************************************)
ReqKey == StoredKey(pj_req.user_id, pj_req.project_id)
Looked == pj_pc \in {"s3", "done"}

\* C1 as stated: every read operation ends either with data of the item
\* stored under exactly (USER#<user_id>, PROJ#<project_id>) or in a 404.
C1_ExactItemOr404 ==
    pj_pc = "done" =>
        \/ pj_result.status = 404
        \/ /\ pj_result.status = 200
           /\ ReqKey \in DOMAIN pj_table
           /\ pj_item = Some(pj_table[ReqKey])

\* C1 as amended: the item a read operation works on is the one stored
\* under exactly (USER#<user_id>, PROJ#<project_id>); when nothing is stored
\* under that key the operation ends in 404 with no item and no read, and
\* otherwise it ends with data of that item, in 404 or in 500.
C1_TenantIsolation ==
    Looked =>
        /\ pj_item # None =>
              /\ ReqKey \in DOMAIN pj_table
              /\ pj_item[1] = pj_table[ReqKey]
              /\ pj_item[1].UserId = pj_req.user_id
        /\ ReqKey \notin DOMAIN pj_table =>
              /\ pj_pc = "done"
              /\ pj_result.status = 404
              /\ pj_item = None
              /\ pj_events = <<>>
        /\ pj_pc = "done" => pj_result.status \in {200, 404, 500}
        /\ pj_result.status = 200 => pj_item # None
        /\ (pj_result.status = 200 /\ pj_req.op = "get_project_metadata") =>
              pj_result.body.user_id = pj_req.user_id

\* A lookup with a mismatched pair: the project exists for another user,
\* not for the one asking, and the operation has ended in 404.
C1_Witness ==
    /\ pj_pc = "done"
    /\ pj_result.status = 404
    /\ ReqKey \notin DOMAIN pj_table
    /\ \E u \in UserIds : StoredKey(u, pj_req.project_id) \in DOMAIN pj_table

\* C4: every object-storage read of a request comes after a call of
\* _parse_s3_uri on the item's reference that accepted it, and reads exactly
\* the (bucket, key) that call returned.
C4_ValidationPrecedesRead ==
    /\ \A i \in 1..Len(pj_events) :
          pj_events[i].ev = "s3_read" =>
              \E j \in 1..(i - 1) :
                  /\ pj_events[j].ev = "parse"
                  /\ pj_events[j].ok
                  /\ Some(pj_events[j].uri) = ItemGet(pj_item[1], RefField(pj_req.op))
                  /\ ParseS3Uri(pj_events[j].uri).ok
                  /\ pj_events[i].bucket = pj_events[j].bucket
                  /\ pj_events[i].key = pj_events[j].key
    /\ pj_pc = "s3" => \E i \in 1..Len(pj_events) : pj_events[i].ev = "s3_read"

\* A read has been issued, after the parser accepted the reference.
C4_Witness ==
    /\ pj_pc = "s3"
    /\ Len(pj_events) = 2
    /\ pj_events[2].ev = "s3_read"

(***************************************************************************)
(* Claims about the configuration resolver.                                *)
(***************************************************************************)
Called == cf_last.kind # "none"
ParameterStoreSupplied ==
    /\ cf_last.pre.USE_AWS_PARAMETER_STORE
    /\ "database_url" \in DOMAIN cf_last.params
    /\ cf_last.params["database_url"] # ""
HostAndPassword(s) == s.DB_HOST # "" /\ s.DB_PASSWORD # <<>>

\* C5 as stated: whenever Parameter Store is enabled and supplies a
\* non-empty database_url, the returned DATABASE_URL is that value.
C5_ParameterStoreFirst ==
    (cf_last.kind = "returned" /\ ParameterStoreSupplied) =>
        cf_last.settings.DATABASE_URL = cf_last.params["database_url"]

\* C5 as amended: the DB_HOST / DB_PASSWORD fields come first: when both are
\* set the returned DATABASE_URL is the one built from them, whatever
\* Parameter Store supplied; the Parameter Store value is returned when they
\* are not both set; the local file is read only when the fields, Parameter
\* Store and the DATABASE_URL already set all gave nothing.
C5_SecretsManagerFirst ==
    cf_last.kind = "returned" =>
        /\ HostAndPassword(cf_last.settings) =>
              cf_last.settings.DATABASE_URL = BuildDatabaseUrl(cf_last.settings)
        /\ (~HostAndPassword(cf_last.settings) /\ ParameterStoreSupplied) =>
              cf_last.settings.DATABASE_URL = cf_last.params["database_url"]
        /\ cf_last.file_read =>
              /\ ~HostAndPassword(cf_last.pre)
              /\ ~ParameterStoreSupplied
              /\ cf_last.pre.DATABASE_URL = ""

\* Parameter Store supplied a database_url, DB_HOST and DB_PASSWORD are set,
\* and the call returned.
C5_Witness ==
    /\ cf_last.kind = "returned"
    /\ ParameterStoreSupplied
    /\ HostAndPassword(cf_last.pre)

\* C6: in production and staging with Parameter Store disabled every call
\* of get_settings raises RuntimeError, with no fetch and no file read, and
\* none ever returns, whatever DATABASE_URL, DB_HOST and DB_PASSWORD hold.
C6_ProdRequiresParameterStore ==
    (cf_env.ENVIRONMENT \in {"production", "staging"}
        /\ ~cf_env.USE_AWS_PARAMETER_STORE) =>
        /\ ~cf_returned
        /\ Called =>
              /\ cf_last.kind = "raised"
              /\ cf_last.error = "Parameter Store required"
              /\ cf_last.fetches = 0
              /\ ~cf_last.file_read

\* Staging without Parameter Store, with DATABASE_URL, DB_HOST and
\* DB_PASSWORD all set, after a second call.
C6_Witness ==
    /\ cf_env.ENVIRONMENT = "staging"
    /\ ~cf_env.USE_AWS_PARAMETER_STORE
    /\ cf_env.DATABASE_URL # ""
    /\ HostAndPassword(cf_env)
    /\ cf_calls = 2
    /\ cf_last.kind = "raised"

\* No source yields a connection string for the call just made.
NoSourceYields ==
    /\ ~ParameterStoreSupplied
    /\ cf_last.pre.DATABASE_URL = ""
    /\ ~HostAndPassword(cf_last.pre)
    /\ \/ cf_file = None
       \/ \E f \in {"DB_HOST", "DB_USERNAME", "DB_PASSWORD"} :
             LET empty == IF f = "DB_PASSWORD" THEN <<>> ELSE ""
             IN  cf_last.pre[f] = empty /\ cf_file[1][f] = empty

\* C7: a call of get_settings that returns leaves a non-empty DATABASE_URL
\* in the settings it returns, and a call for which no source yields a
\* connection string raises RuntimeError.
C7_ReturnedUrlNonEmpty ==
    /\ cf_last.kind = "returned" =>
          /\ cf_last.settings.DATABASE_URL # ""
          /\ cf_settings = Some(cf_last.settings)
    /\ (Called /\ NoSourceYields) => cf_last.kind = "raised"

\* The local file exists but lacks a needed field, nothing else yields a
\* connection string, and the call raised.
C7_Witness ==
    /\ Called
    /\ NoSourceYields
    /\ cf_file # None
    /\ cf_last.file_read
    /\ cf_last.kind = "raised"

\* C8: every call returns the one Settings object, and once a call has
\* returned no later call changes a field of it.
C8_SingleImmutableSettings ==
    [][/\ cf_created' <= 1
       /\ cf_returned => cf_settings' = cf_settings]_vars

\* C9: in production and staging get_settings never reads the local file,
\* and a call that leaves DATABASE_URL empty raises RuntimeError.
C9_NoFallbackInProd ==
    cf_env.ENVIRONMENT \in {"production", "staging"} =>
        /\ ~cf_last.file_read
        /\ (Called /\ cf_last.settings.DATABASE_URL = "") => cf_last.kind = "raised"
        /\ cf_last.kind = "returned" =>
              \/ ParameterStoreSupplied
              \/ HostAndPassword(cf_last.pre)
              \/ cf_last.pre.DATABASE_URL # ""

\* Production with Parameter Store enabled and reachable but holding no
\* database_url, no other source, and a complete local file: the call
\* raised without reading the file.
C9_Witness ==
    /\ cf_env.ENVIRONMENT = "production"
    /\ cf_file # None
    /\ cf_file[1].DB_USERNAME # ""
    /\ cf_last.fetches = 1
    /\ cf_last.params # <<>>
    /\ cf_last.error = "DATABASE_URL not configured"
    /\ cf_last.kind = "raised"


(***************************************************************************)
(* Claims about the identity adapter's retries (SpecCognito).              *)
(***************************************************************************)
Finished == cg_pc = "done"
LastAnswer == cg_answers[Len(cg_answers)]
CognitoExceptionClasses ==
    {"CognitoException", "UserNotFoundException",
     "InvalidCredentialsException", "UserNotConfirmedException"}

\* C10 as stated: an invocation in which the provider answered with a
\* business error (a ClientError) called the provider exactly once and
\* ended by raising an exception of the adapter's taxonomy.
C10_BusinessErrorCalledOnce ==
    (Finished /\ \E i \in 1..Len(cg_answers) : cg_answers[i] \in ClientErrorCodes)
        => /\ Len(cg_answers) = 1
           /\ cg_result.kind = "raised"
           /\ cg_result.cls \in CognitoExceptionClasses

\* C10, amended: every provider answer that was followed by another provider
\* call is a transport-level failure; a business error is therefore the last
\* answer of its invocation, which ends at once with what the operation maps
\* the code to: an exception of the adapter's taxonomy, or the "existing"
\* result of sign_up_with_phone for UsernameExistsException.  A business
\* error in answer to the first call means exactly one call.
C10_RetryOnlyAfterTransportFailure ==
    /\ \A i \in 1..(Len(cg_answers) - 1) : cg_answers[i] \in RetryableExceptions
    /\ (cg_answers # <<>> /\ LastAnswer \in ClientErrorCodes)
          => /\ Finished
             /\ cg_result = MapClientError(BodyOp(cg_op), LastAnswer)
             /\ \/ /\ cg_result.kind = "raised"
                   /\ cg_result.cls \in CognitoExceptionClasses
                \/ /\ cg_op = "sign_up_with_phone"
                   /\ LastAnswer = "UsernameExistsException"
                   /\ cg_result = ReturnedDict("existing", PhoneSignUpExisting)
    /\ (cg_answers # <<>> /\ cg_answers[1] \in ClientErrorCodes)
          => Len(cg_answers) = 1

\* A sign-in whose first call failed to connect and whose second call was
\* answered with NotAuthorizedException.
C10_Witness ==
    /\ Finished
    /\ cg_op = "sign_in"
    /\ cg_answers = <<"EndpointConnectionError", "NotAuthorizedException">>
    /\ cg_result = Raised("InvalidCredentialsException", "Incorrect username or password")

(***************************************************************************)
(* C11: bounded retries.                                                   *)
(***************************************************************************)
AllTransportFailures ==
    \A i \in 1..Len(cg_answers) : cg_answers[i] \in RetryableExceptions

\* C11: one invocation of any operation, link_phone_to_user and
\* link_email_to_user included, calls the provider at most 3 times, and an
\* invocation all of whose calls failed at transport level ends by raising
\* that failure.
C11_AtMostThreeProviderCalls ==
    /\ Len(cg_answers) <= StopAfterAttempt
    /\ (Finished /\ AllTransportFailures)
          => /\ cg_result.kind = "raised"
             /\ cg_result.cls = LastAnswer

(***************************************************************************)
(* C12: the exception taxonomy.                                            *)
(***************************************************************************)
AuthOps == {"sign_in", "admin_initiate_auth"}

TaxonomyOf(code) ==
    CASE code = "NotAuthorizedException" -> "InvalidCredentialsException"
      [] code = "UserNotFoundException" -> "UserNotFoundException"
      [] code = "UserNotConfirmedException" -> "UserNotConfirmedException"
      [] OTHER -> "CognitoException"

\* C12: an invocation that the provider ended with a business error never
\* lets a raw ClientError out: whatever it raises is a CognitoException or a
\* subclass; for sign_in and admin_initiate_auth the class raised is
\* InvalidCredentialsException, UserNotFoundException or
\* UserNotConfirmedException for the three codes of those names
\* (NotAuthorizedException for the first) and the base class for the rest.
C12_UniformExceptionTaxonomy ==
    (Finished /\ LastAnswer \in ClientErrorCodes)
        => /\ cg_result.cls # "ClientError"
           /\ cg_result.kind = "raised"
                 => cg_result.cls \in CognitoExceptionClasses
           /\ cg_op \in AuthOps
                 => /\ cg_result.kind = "raised"
                    /\ cg_result.cls = TaxonomyOf(LastAnswer)

\* admin_initiate_auth for an unconfirmed account.
C12_Witness ==
    /\ Finished
    /\ cg_op = "admin_initiate_auth"
    /\ cg_answers = <<"UserNotConfirmedException">>
    /\ cg_result.kind = "raised"
    /\ cg_result.cls = "UserNotConfirmedException"

(***************************************************************************)
(* C13: the secret hash.                                                   *)
(***************************************************************************)
Sent == cg_request # NoParams
SecretConfigured ==
    cg_client.client_secret # None /\ cg_client.client_secret[1] # <<>>

\* C13: the request an operation taking a username and a client id sends
\* carries a secret hash exactly when a non-empty client secret is
\* configured, and the hash is HMAC-SHA256, keyed by the client secret, of
\* the username followed by the client id.
C13_SecretHashIffClientSecret ==
    (Sent /\ cg_op \in SecretHashOps)
        => /\ cg_request.ClientId = Some(cg_client.client_id)
           /\ cg_request.SecretHash # None <=> SecretConfigured
           /\ SecretConfigured
                 => cg_request.SecretHash =
                        Some([alg |-> "HMAC-SHA256/base64",
                              key |-> cg_client.client_secret[1],
                              message |-> cg_username \o cg_client.client_id])

\* A token refresh sent with the hash of its username and the client id.
C13_Witness ==
    /\ Sent
    /\ cg_op = "refresh_tokens"
    /\ SecretConfigured
    /\ cg_username = <<"v", "w">>
    /\ cg_request.SecretHash =
           Some(HmacSha256Base64(<<"k">>, <<"v", "w", "c">>))

(***************************************************************************)
(* Claims about logging (SpecLogging).                                     *)
(***************************************************************************)
MaskedOnce == lg_n = 1
SensitiveKey(key) == Lower(key) \in SENSITIVE_FIELDS

\* C14: after mask_sensitive_data has run, the value of every key whose
\* lowercase form is in SENSITIVE_FIELDS is, for a string of more than 8
\* characters, its first 4 characters, '****' and its last 4 characters,
\* and '****' for every other value (a string of 8 characters or fewer, or
\* a value that is not a string).
C14_MaskFormat ==
    MaskedOnce =>
        \A key \in DOMAIN lg_in :
            SensitiveKey(key) =>
                LET value == lg_in[key]
                    n == Len(value.v)
                IN  IF value.type = "str" /\ n > 8
                    THEN lg_event[key] =
                             [type |-> "str",
                              v |-> SubSeq(value.v, 1, 4) \o <<"*", "*", "*", "*">>
                                       \o SubSeq(value.v, n - 3, n)]
                    ELSE lg_event[key] =
                             [type |-> "str", v |-> <<"*", "*", "*", "*">>]

\* A mixed-case sensitive key with a 9-character value next to a sensitive
\* key with an 8-character value.
C14_Witness ==
    /\ MaskedOnce
    /\ DOMAIN lg_in = {<<"T", "o", "k", "e", "n">>,
                       <<"p", "a", "s", "s", "w", "o", "r", "d">>}
    /\ lg_in[<<"T", "o", "k", "e", "n">>].v
           = <<"a", "b", "c", "d", "e", "f", "g", "h", "i">>
    /\ lg_event[<<"T", "o", "k", "e", "n">>].v
           = <<"a", "b", "c", "d", "*", "*", "*", "*", "f", "g", "h", "i">>
    /\ lg_in[<<"p", "a", "s", "s", "w", "o", "r", "d">>].v
           = <<"a", "b", "c", "d", "e", "f", "g", "h">>
    /\ lg_event[<<"p", "a", "s", "s", "w", "o", "r", "d">>].v
           = <<"*", "*", "*", "*">>

\* C15: nothing written to the log or the console contains the sensitive
\* value the service was given (a phone number, a database connection
\* string) unmasked.
C15_NoUnmaskedSensitiveOutput ==
    \A i \in 1..Len(lg_written) :
        \A key \in DOMAIN lg_written[i] :
            ~Contains(lg_written[i][key].v, lg_given)

(***************************************************************************)
(* Claims about the list endpoint (SpecListing).                           *)
(***************************************************************************)
Responses == {ls_resps[i] : i \in 1..Len(ls_resps)}
Min(a, b) == IF a < b THEN a ELSE b
Max(a, b) == IF a > b THEN a ELSE b

\* C16: in every response total_pages is ceil(total / page_size), the least
\* number of pages of page_size rows that hold total rows, when page_size
\* is positive, and 0 when page_size is 0; 42 rows in pages of 10 are 5
\* pages.
C16_TotalPagesIsCeiling ==
    /\ \A r \in Responses :
          IF r.page_size > 0
          THEN /\ r.total_pages * r.page_size >= r.total
               /\ (r.total_pages - 1) * r.page_size < r.total
               /\ r.total_pages >= 0
          ELSE r.total_pages = 0
    /\ Responses # {} => CeilOfQuotient(42, 10) = 5

\* Three matching rows in pages of two: two pages.
C16_Witness ==
    \E r \in Responses : r.total = 3 /\ r.page_size = 2 /\ r.total_pages = 2

\* C17: a response to page >= 1 with page_size >= 1 has at most page_size
\* items, and exactly min(page_size, max(0, total - (page - 1) * page_size)),
\* total being the count the response reports.
C17_PageLength ==
    \A r \in Responses :
        (r.page >= 1 /\ r.page_size >= 1)
            => /\ Len(r.items) <= r.page_size
               /\ Len(r.items) =
                      Min(r.page_size,
                          Max(0, r.total - (r.page - 1) * r.page_size))

\* The second page of three rows in pages of two has one item, and the
\* third page none.
C17_Witness ==
    /\ Len(ls_resps) = 3
    /\ ls_resps[2].total = 3
    /\ ls_resps[2].page_size = 2
    /\ Len(ls_resps[2].items) = 1
    /\ Len(ls_resps[3].items) = 0

\* What the request asks for: every filter that is supplied (not None).
Satisfies(row, q) ==
    /\ q.project_id # None => row.project_id = q.project_id[1]
    /\ q.user_id # None => row.user_id = q.user_id[1]
    /\ q.start_time # None => row.created_at >= q.start_time[1]
    /\ q.end_time # None => row.created_at <= q.end_time[1]

\* C18: every item of every response satisfies every filter the request
\* supplies, whatever the supplied value, and total is the number of rows
\* that satisfy them all.
C18_SuppliedFiltersApplied ==
    \A r \in Responses :
        /\ \A i \in 1..Len(r.items) : Satisfies(r.items[i], ls_query)
        /\ r.total =
               Cardinality({row \in ls_table : Satisfies(row, ls_query)})

(***************************************************************************)
(* C19: missing referenced content (SpecProject).                          *)
(***************************************************************************)
ContentOps == JsonOps \cup TextOps
Answered == pj_content # <<>>
NoContent == pj_content[1] = None \/ pj_content[1][1] = <<>>

\* C19: a content operation on an existing item ends in HTTP 404 when the
\* item's reference attribute is absent or empty and when the object-storage
\* read returned no content; get_ppm_field, given a PPM, ends in 404 when
\* the field is not one of its keys and returns exactly {field: ppm[field]}
\* when it is.
C19_MissingContentIs404 ==
    (pj_pc = "done" /\ pj_req.op \in ContentOps /\ pj_item # None)
        => LET ref == ItemGet(pj_item[1], RefField(pj_req.op))
           IN  /\ (ref = None \/ ref[1] = <<>>)
                     => pj_result.status = 404 /\ ~Answered
               /\ (Answered /\ NoContent) => pj_result.status = 404
               /\ (Answered /\ ~NoContent /\ pj_req.op = "get_ppm_field")
                     => LET ppm == pj_content[1][1]
                        IN  IF pj_req.field \in DOMAIN ppm
                            THEN /\ pj_result.status = 200
                                 /\ DOMAIN pj_result.body = {pj_req.field}
                                 /\ pj_result.body[pj_req.field] = ppm[pj_req.field]
                            ELSE pj_result.status = 404

\* A text read that returned nothing, for an item whose reference is valid.
C19_Witness ==
    /\ pj_pc = "done"
    /\ pj_req.op = "get_creative_brief"
    /\ Answered
    /\ pj_content[1] = None
    /\ pj_result.status = 404

(***************************************************************************)
(* C20: the cached handles (SpecClients).                                  *)
(***************************************************************************)
\* C20: whatever the interleaving of the callers, at most one AWSClients
\* and at most one handle of each kind is ever constructed, and every
\* caller of get_aws_clients receives the same instance.
C20_HandlesCreatedOnce ==
    /\ ca_instances <= 1
    /\ \A kind \in DOMAIN ca_made : ca_made[kind] <= 1
    /\ Cardinality(ca_returned) <= 1

(***************************************************************************)
(* C21: the read paths change no store (SpecReadOnly).                     *)
(***************************************************************************)
\* C21: no step of a list_projects request or of a ProjectService read
\* changes the project rows (their project_id included), the key-value
\* table or the contents of object storage.
C21_ReadsLeaveStoresUnchanged ==
    [][/\ ls_table' = ls_table
       /\ pj_table' = pj_table
       /\ pj_objects' = pj_objects]_vars

\* A page of rows has been listed and a content read has fetched an object,
\* with the rows, the item and the object still stored.
C21_Witness ==
    /\ Len(ls_resps) >= 1
    /\ Len(ls_resps[1].items) = MaxPageSize
    /\ Cardinality(ls_table) = MaxRows
    /\ pj_pc = "done"
    /\ pj_result.status = 200
    /\ pj_content # <<>>
    /\ pj_content[1] # None
    /\ DOMAIN pj_table # {}
    /\ DOMAIN pj_objects # {}

HeldReference == ItemGet(pj_item[1], RefField(pj_req.op))
RejectedReference ==
    /\ pj_req.op \in ContentOps
    /\ pj_item # None
    /\ HeldReference # None
    /\ ~ParseS3Uri(HeldReference[1]).ok
EndsInInvalidReference ==
    /\ pj_pc = "done"
    /\ pj_result.status = 500
    /\ pj_result.detail = <<"Invalid ", ContentName(pj_req.op), " reference">>
    /\ pj_result.body = None
    /\ pj_content = <<>>
    /\ \A i \in 1..Len(pj_events) : pj_events[i].ev # "s3_read"

\* C23 as stated: whenever the item exists and its reference field holds a
\* value _parse_s3_uri rejects, the request ends in HTTP 500 'Invalid
\* <content> reference' with no object-storage read.
C23_RejectedReferenceIs500 ==
    RejectedReference => EndsInInvalidReference

\* C23 as amended: the same for every non-empty rejected reference; the
\* empty string never reaches the parser and ends in 404 '<content> not
\* found', also without a read.
C23_NonEmptyRejectedReferenceIs500 ==
    /\ (RejectedReference /\ HeldReference[1] # <<>>) => EndsInInvalidReference
    /\ (RejectedReference /\ HeldReference[1] = <<>>) =>
           /\ pj_pc = "done"
           /\ pj_result = Http(404, <<ContentName(pj_req.op), " not found">>, None)
           /\ pj_content = <<>>
           /\ \A i \in 1..Len(pj_events) : pj_events[i].ev # "s3_read"

\* A request found its item with a non-empty reference the parser rejected
\* and ended in HTTP 500.
C23_Witness ==
    /\ RejectedReference
    /\ HeldReference[1] # <<>>
    /\ pj_result.status = 500
    /\ Len(pj_events) = 1
    /\ pj_events[1].ev = "parse"
    /\ ~pj_events[1].ok

(***************************************************************************)
(* C24: the parameter loader (SpecParams).                                 *)
(***************************************************************************)
\* The first page whose request fails, 0 when none does.
FirstFailure ==
    IF \E i \in DOMAIN pm_pages : pm_pages[i].fails
    THEN CHOOSE i \in DOMAIN pm_pages :
             /\ pm_pages[i].fails
             /\ \A j \in 1..(i - 1) : ~pm_pages[j].fails
    ELSE 0

\* The name with the path prefix removed and "/" replaced by "_".
StripPrefix(s, prefix) ==
    IF Len(s) >= Len(prefix) /\ SubSeq(s, 1, Len(prefix)) = prefix
    THEN SubSeq(s, Len(prefix) + 1, Len(s))
    ELSE s
PrefixRemovedKey(name, path) ==
    ReplaceChar(LStrip(StripPrefix(name, path), "/"), "/", "_")

\* The parameters of all pages in the order of the chain.
RECURSIVE PagesFrom(_)
PagesFrom(i) ==
    IF i > Len(pm_pages) THEN <<>> ELSE pm_pages[i].Parameters \o PagesFrom(i + 1)
AllPagesKeyed ==
    LET all == PagesFrom(1)
        keys == {PrefixRemovedKey(all[i].Name, ParameterPath) : i \in DOMAIN all}
    IN  [k \in keys |->
            LET last == CHOOSE i \in DOMAIN all :
                            /\ PrefixRemovedKey(all[i].Name, ParameterPath) = k
                            /\ \A j \in DOMAIN all :
                                   PrefixRemovedKey(all[j].Name, ParameterPath) = k
                                       => j <= i
            IN  all[last].Value]

\* C24: the loader requests the pages of the chain one after the other and
\* never more than the chain has; when a request fails it stops there and
\* returns the empty dict; otherwise it requests every page and returns the
\* parameters of all of them, keyed by the name with the path prefix removed
\* and "/" replaced by "_".
C24_AllPagesKeyedByPrefixRemoval ==
    /\ pm_requests <= Len(pm_pages)
    /\ pm_pc = "done" =>
           IF FirstFailure # 0
           THEN /\ pm_requests = FirstFailure
                /\ pm_result = Some(<<>>)
           ELSE /\ pm_requests = Len(pm_pages)
                /\ pm_result = Some(AllPagesKeyed)

(***************************************************************************)
(* C25: delete of the repository (SpecRepository).                         *)
(***************************************************************************)
\* C25: delete(id) returns True and removes exactly the row with that id
\* when it exists, and returns False leaving the rows as they were when it
\* does not; the call that follows a delete(id) finds no such row:
\* exists(id) is False, get_by_id(id) is None, a second delete(id) is False.
C25_DeleteContract ==
    \A i \in DOMAIN rp_hist :
        rp_hist[i].op = "delete" =>
            LET call == rp_hist[i]
            IN  /\ call.result = (call.id \in DOMAIN call.before)
                /\ DOMAIN call.after = DOMAIN call.before \ {call.id}
                /\ \A k \in DOMAIN call.after : call.after[k] = call.before[k]
                /\ (i < Len(rp_hist) /\ rp_hist[i + 1].id = call.id) =>
                       LET following == rp_hist[i + 1]
                       IN  /\ following.op = "exists" => following.result = FALSE
                           /\ following.op = "get_by_id" => following.result = None
                           /\ following.op = "delete" => following.result = FALSE

\* A delete removed a row and left another, and the delete of the same id
\* that followed returned False.
C25_Witness ==
    /\ Len(rp_hist) >= 2
    /\ rp_hist[1].op = "delete"
    /\ rp_hist[1].result = TRUE
    /\ DOMAIN rp_hist[1].after # {}
    /\ rp_hist[2].op = "delete"
    /\ rp_hist[2].id = rp_hist[1].id
    /\ rp_hist[2].result = FALSE

(***************************************************************************)
(* C26: the sessions of get_db (SpecSession).                              *)
(***************************************************************************)
\* The sessions requests hold between the yield and the close.
HeldSessions ==
    {db_session[r] : r \in {q \in Requests : db_pc[q] \in {"yielded", "finally"}}}
SessionsClosedOnce ==
    /\ db_open = HeldSessions
    /\ \A x \in Sessions :
          db_closes[x] = IF x <= db_made /\ x \notin db_open THEN 1 ELSE 0
    /\ \A r \in Requests :
          db_pc[r] = "finished" =>
              /\ db_session[r] \notin db_open
              /\ db_closes[db_session[r]] = 1
    /\ (\A r \in Requests : db_pc[r] \in {"idle", "finished"}) => db_open = {}

\* C26: a session is open exactly while its request holds it; once the
\* handler has returned or raised the session is closed, exactly once, and
\* when every request is complete no session is open.
C26_EverySessionClosedOnce ==
    /\ []SessionsClosedOnce
    /\ \A r \in Requests :
          (db_pc[r] = "finally") ~> (db_pc[r] = "finished")

\* Two requests are complete, one whose handler returned and one whose
\* handler raised, and their two sessions are closed.
C26_Witness ==
    /\ \A r \in Requests : db_pc[r] = "finished"
    /\ \E r \in Requests : db_outcome[r] = "returned"
    /\ \E r \in Requests : db_outcome[r] = "raised"
    /\ db_made >= 2
    /\ db_open = {}

(***************************************************************************)
(* C27: the pages of one query taken together (SpecListing).               *)
(***************************************************************************)
\* The items of the responses to pages 1..n, in that order.
RECURSIVE ItemsOfPages(_)
ItemsOfPages(n) ==
    IF n = 0 THEN <<>> ELSE ItemsOfPages(n - 1) \o ls_resps[n].items

\* C27: for a page_size the endpoint accepts (at least 1), once pages
\* 1..total_pages have been requested, their items taken together are the
\* matching rows, each exactly once, in non-increasing created_at order;
\* every page after total_pages is empty and reports the same total.
C27_PagesPartitionTheRows ==
    (ls_resps # <<>> /\ ls_query.page_size >= 1) =>
        LET total_pages == ls_resps[1].total_pages
            matching == Filtered(ls_table, ls_query)
        IN  /\ Len(ls_resps) >= total_pages =>
                   LET all == ItemsOfPages(total_pages)
                   IN  /\ Len(all) = Cardinality(matching)
                       /\ {all[i] : i \in DOMAIN all} = matching
                       /\ \A i \in 1..(Len(all) - 1) :
                              all[i].created_at >= all[i + 1].created_at
            /\ \A n \in DOMAIN ls_resps :
                   n > total_pages =>
                       /\ ls_resps[n].items = <<>>
                       /\ ls_resps[n].total = Cardinality(matching)

(***************************************************************************)
(* C28: sign_up_with_phone (SpecCognito).                                  *)
(***************************************************************************)
\* C28: a finished sign_up_with_phone has returned the dict with existing =
\* True, UserSub = None and temp_password = None when the provider's last
\* answer was UsernameExistsException, has returned existing = False with
\* the generated temporary password when the sign-up succeeded, and has
\* raised CognitoException when the provider answered any other error.
C28_ExistingUsernameIsNotAnError ==
    (Finished /\ cg_op = "sign_up_with_phone") =>
        /\ LastAnswer = "UsernameExistsException" =>
               /\ cg_result.kind = "returned"
               /\ cg_result.value # None
               /\ cg_result.value[1].existing = TRUE
               /\ cg_result.value[1].UserSub = None
               /\ cg_result.value[1].temp_password = None
        /\ LastAnswer \in {"ok", "ok_no_tokens"} =>
               /\ cg_result.kind = "returned"
               /\ cg_result.value # None
               /\ cg_result.value[1].existing = FALSE
               /\ cg_result.value[1].temp_password = Some(TempPassword)
        /\ LastAnswer \in ClientErrorCodes \ {"UsernameExistsException"} =>
               /\ cg_result.kind = "raised"
               /\ cg_result.cls = "CognitoException"

\* The sign-up was retried after a transport failure and the provider then
\* answered that the username exists: the call returned existing = True.
C28_Witness ==
    /\ Finished
    /\ cg_op = "sign_up_with_phone"
    /\ cg_answers = <<"ConnectTimeoutError", "UsernameExistsException">>
    /\ cg_result = ReturnedDict("existing", PhoneSignUpExisting)

(***************************************************************************)
(* C29: masking twice (SpecLogging).                                       *)
(***************************************************************************)
\* C29: mask_sensitive_data keeps the set of keys and the value of every
\* key whose lowercase form is not in SENSITIVE_FIELDS, and the dictionary
\* after two runs is the dictionary after one.
C29_MaskIdempotentAndLocal ==
    /\ DOMAIN lg_event = DOMAIN lg_in
    /\ \A key \in DOMAIN lg_in :
          ~SensitiveKey(key) => lg_event[key] = lg_in[key]
    /\ lg_n = 2 => lg_event = MaskSensitiveData(lg_in)

\* The processor has run twice on a dictionary with a 9-character string
\* under a sensitive key and a value under a key that is not sensitive.
C29_Witness ==
    /\ lg_n = 2
    /\ \E key \in DOMAIN lg_in :
          /\ SensitiveKey(key)
          /\ lg_in[key] = Str(<<"a", "b", "c", "d", "e", "f", "g", "h", "i">>)
          /\ lg_event[key] # lg_in[key]
    /\ \E key \in DOMAIN lg_in :
          /\ ~SensitiveKey(key)
          /\ lg_in[key] = Str(<<"a", "b", "c", "d", "e", "f", "g", "h", "i">>)

(***************************************************************************)
(* C30: the escaped filter value (SpecLogging).                            *)
(***************************************************************************)
\* Reading a double-quoted value from just after its opening quote: a
\* backslash escapes the character after it, the first quote that is not
\* escaped closes the value, and `rest` is what follows that quote.
RECURSIVE ReadQuoted(_)
ReadQuoted(s) ==
    IF s = <<>>
    THEN [value |-> <<>>, closed |-> FALSE, rest |-> <<>>]
    ELSE IF Head(s) = "\""
    THEN [value |-> <<>>, closed |-> TRUE, rest |-> Tail(s)]
    ELSE IF Head(s) = "\\"
    THEN IF Len(s) = 1
         THEN [value |-> <<>>, closed |-> FALSE, rest |-> <<>>]
         ELSE LET r == ReadQuoted(Tail(Tail(s)))
              IN  [r EXCEPT !.value = <<s[2]>> \o @]
    ELSE LET r == ReadQuoted(Tail(s))
         IN  [r EXCEPT !.value = <<Head(s)>> \o @]

FilterPrefix ==
    <<"p", "h", "o", "n", "e", "_", "n", "u", "m", "b", "e", "r", " ", "=", " ", "\"">>
QueryLogged == lg_written # <<>> /\ KeyFilter \in DOMAIN lg_written[1]

\* C30: in the filter list_users_by_phone builds, the quoted value is closed
\* by the filter's last character and by no quote before it, and read back
\* with the escapes undone it is the phone_number the caller gave.
C30_EscapedValueReadsBack ==
    QueryLogged =>
        LET filter == lg_written[1][KeyFilter].v
            quoted == ReadQuoted(SubSeq(filter, Len(FilterPrefix) + 1, Len(filter)))
        IN  /\ SubSeq(filter, 1, Len(FilterPrefix)) = FilterPrefix
            /\ quoted.closed
            /\ quoted.rest = <<>>
            /\ quoted.value = lg_given

\* The caller gave a quote, a backslash and a quote.
C30_Witness ==
    /\ QueryLogged
    /\ lg_given = <<"\"", "\\", "\"">>
    /\ lg_written[1][KeyFilter].v =
           FilterPrefix \o <<"\\", "\"", "\\", "\\", "\\", "\"", "\"">>

====
